---- MODULE Spec2Model ----
(***************************************************************************)
(* Model of the fat_volume_id crate: the 32-bit and 64-bit volume           *)
(* identifiers, their hex formatters (id32/fmt.rs, id64/fmt.rs), the fast   *)
(* parsers (id32/parser.rs, id64/parser.rs) and the diagnostics that        *)
(* classify a rejected input (id32/error.rs, id64/error.rs).                *)
(*                                                                         *)
(* Bytes are naturals in 0..255.  A byte string, a buffer and the stored    *)
(* bytes of an identifier are sequences of bytes.  The source indexes from  *)
(* 0; At(s, i) reads index i of the source.                                 *)
(***************************************************************************)
EXTENDS Naturals, Integers, Sequences, FiniteSets, TLC

VARIABLES
    pc,       \* position of the caller: start, typing, have_id, made, failed,
              \* accessed, shown, encoded, parsed, diagnosed, rendered
    op,       \* the operation called last, "none" before the first call
    id,       \* the identifier being formatted: [width, bytes], NoId before construction
    upcase,   \* the case asked of the formatter (encode_upper: TRUE)
    before,   \* the caller's buffer as it was handed to the formatter
    buffer,   \* the caller's buffer after the formatter returned or panicked
    text,     \* the str returned by the formatter
    input,    \* the byte string handed to the parser
    result,   \* outcome of the last call
    made,     \* the constructor call that built id: [fn, arg]
    ret       \* the value the last accessor returned

vars == <<pc, op, id, upcase, before, buffer, text, input, result, made, ret>>

----------------------------------------------------------------------------
(* Bounds of the exploration *)

\* longest input (in characters) typed for the 32-bit parser
MaxLen32 == 10
\* longest input (in characters) typed for the 64-bit parser
MaxLen64 == 17
\* most non-hex characters in an input of at most MaxLen32 characters
MaxOdd32 == 2
\* most non-hex characters in an input of at most MaxLen64 characters
MaxOdd64 == 1
\* how far beyond LENGTH the caller's buffer may extend
MaxExtra == 1
\* hyphens typed into an input that holds nothing else but hex digits
MaxHyphen32 == 4
\* longest slice handed to VolumeId32::from_slice / from_slice_be
MaxSlice32 == 5
\* longest slice handed to VolumeId64::from_slice / from_slice_be
MaxSlice64 == 9

----------------------------------------------------------------------------
(* Bytes and ASCII *)

Byte == 0..255

HYPHEN == 45

At(s, i) == s[i + 1]

\* u8::is_ascii_hexdigit
is_ascii_hexdigit(b) ==
    \/ (48 <= b /\ b <= 57)
    \/ (65 <= b /\ b <= 70)
    \/ (97 <= b /\ b <= 102)

\* bitwise OR of two naturals (the `|` of the decoders)
RECURSIVE BitOr(_, _)
BitOr(a, b) ==
    IF a = 0 THEN b
    ELSE IF b = 0 THEN a
    ELSE (IF a % 2 = 1 \/ b % 2 = 1 THEN 1 ELSE 0) + 2 * BitOr(a \div 2, b \div 2)

----------------------------------------------------------------------------
(* Codec tables *)

\* HEX_TABLE without the arm for b'A'..=b'F'
HEX_TABLE_no_upper ==
    [i \in Byte |->
        IF 48 <= i /\ i <= 57 THEN i - 48
        ELSE IF 97 <= i /\ i <= 102 THEN i - 97 + 10
        ELSE 255]

\* id32/parser.rs HEX_TABLE: digit value of an ASCII hex digit, 0xff otherwise.
HEX_TABLE ==
    [i \in Byte |->
        IF 48 <= i /\ i <= 57 THEN i - 48
        ELSE IF 97 <= i /\ i <= 102 THEN i - 97 + 10
        ELSE IF 65 <= i /\ i <= 70 THEN i - 65 + 10
        ELSE 255]

\* the shift table without the wrap to eight bits
SHL4_TABLE_nowrap == [i \in Byte |-> i * 16]

\* id32/parser.rs SHL4_TABLE: i.wrapping_shl(4) on u8
SHL4_TABLE == [i \in Byte |-> (i * 16) % 256]

\* crate::common::HEX_TABLE, imported by id64/parser.rs.  common.rs holds only
\* UPPER and LOWER, so the table is taken from section 4.1 of the
\* specification: the 4-bit value of a hex digit, the sentinel 0xFF otherwise.
common_HEX_TABLE ==
    [i \in Byte |->
        IF 48 <= i /\ i <= 57 THEN i - 48
        ELSE IF (97 <= i /\ i <= 102) THEN i - 87
        ELSE IF (65 <= i /\ i <= 70) THEN i - 55
        ELSE 255]

\* crate::common::SHL4_TABLE, imported by id64/parser.rs: value << 4 in a byte
\* (section 4.1 of the specification).
common_SHL4_TABLE == [i \in Byte |-> (i * 16) % 256]

UPPER == <<48, 49, 50, 51, 52, 53, 54, 55, 56, 57, 65, 66, 67, 68, 69, 70>>

\* the lowercase alphabet with a capital F
LOWER_capital_f == <<48, 49, 50, 51, 52, 53, 54, 55, 56, 57, 97, 98, 99, 100, 101, 70>>

LOWER == <<48, 49, 50, 51, 52, 53, 54, 55, 56, 57, 97, 98, 99, 100, 101, 102>>

SimpleId32_LENGTH == 8

HyphenatedId32_LENGTH == 9

SimpleId64_LENGTH == 16

----------------------------------------------------------------------------
(* Results of the parser *)

NoErr == [kind |-> "None"]

\* Ok(VolumeId{32,64}(bytes))
OkId(bytes) ==
    [tag |-> "Ok", bytes |-> bytes, rejected |-> <<>>, err |-> NoErr]

\* Err(InvalidVolumeId{32,64}(s)): the rejected slice and nothing else
Invalid(s) ==
    [tag |-> "Invalid", bytes |-> <<>>, rejected |-> s, err |-> NoErr]

\* Err(Error(kind))
Failed(e) ==
    [tag |-> "Error", bytes |-> <<>>, rejected |-> <<>>, err |-> e]

\* the call panicked (index out of bounds, failed assertion, arithmetic overflow)
Panicked ==
    [tag |-> "Panic", bytes |-> <<>>, rejected |-> <<>>, err |-> NoErr]

NoResult ==
    [tag |-> "None", bytes |-> <<>>, rejected |-> <<>>, err |-> NoErr]

\* VolumeId32::from_bytes / VolumeId64::from_bytes: the bytes are stored verbatim
from_bytes(bytes) == bytes

----------------------------------------------------------------------------
(* Identifiers, id32.rs and id64.rs.  An identifier is its stored bytes.    *)
(* A u32 is the sequence of its two 16-bit halves and a u64 of its four     *)
(* 16-bit quarters, the most significant first; a u16 is a number.          *)

\* ErrorKind::ParseByteLength { len }
ParseByteLength(len) == [kind |-> "ParseByteLength", len |-> len]

\* VolumeId32::nil / VolumeId64::nil
nil32 == <<0, 0, 0, 0>>

nil64 == <<0, 0, 0, 0, 0, 0, 0, 0>>

\* VolumeId32::max / VolumeId64::max
max32 == <<255, 255, 255, 255>>

max64 == <<255, 255, 255, 255, 255, 255, 255, 255>>

\* VolumeId32::from_bytes_be
from_bytes_be32(b) == <<At(b, 3), At(b, 2), At(b, 1), At(b, 0)>>

\* VolumeId64::from_bytes_be
from_bytes_be64(b) ==
    <<At(b, 7), At(b, 6), At(b, 5), At(b, 4), At(b, 3), At(b, 2), At(b, 1), At(b, 0)>>

\* VolumeId32::from_slice
from_slice32(b) ==
    IF Len(b) # 4 THEN Failed(ParseByteLength(Len(b)))
    ELSE OkId(from_bytes(b))

\* from_slice_be of VolumeId32 storing the slice as it is
from_slice_be32_as_is(b) ==
    IF Len(b) # 4 THEN Failed(ParseByteLength(Len(b)))
    ELSE OkId(from_bytes(b))

\* VolumeId32::from_slice_be
from_slice_be32(b) ==
    IF Len(b) # 4 THEN Failed(ParseByteLength(Len(b)))
    ELSE OkId(from_bytes_be32(b))

\* VolumeId64::from_slice
from_slice64(b) ==
    IF Len(b) # 8 THEN Failed(ParseByteLength(Len(b)))
    ELSE OkId(from_bytes(b))

\* VolumeId64::from_slice_be
from_slice_be64(b) ==
    IF Len(b) # 8 THEN Failed(ParseByteLength(Len(b)))
    ELSE OkId(from_bytes_be64(b))

\* uN::to_be_bytes: the two bytes of every 16-bit part, high byte first
RECURSIVE to_be_bytes(_)
to_be_bytes(v) ==
    IF v = <<>> THEN <<>>
    ELSE <<Head(v) \div 256, Head(v) % 256>> \o to_be_bytes(Tail(v))

\* uN::to_le_bytes: the least significant byte first
RECURSIVE to_le_bytes(_)
to_le_bytes(v) ==
    IF v = <<>> THEN <<>>
    ELSE to_le_bytes(Tail(v)) \o <<Head(v) % 256, Head(v) \div 256>>

\* uN::from_be_bytes
RECURSIVE from_be_bytes(_)
from_be_bytes(b) ==
    IF b = <<>> THEN <<>>
    ELSE <<256 * b[1] + b[2]>> \o from_be_bytes(SubSeq(b, 3, Len(b)))

\* uN::from_le_bytes
RECURSIVE from_le_bytes(_)
from_le_bytes(b) ==
    IF b = <<>> THEN <<>>
    ELSE from_le_bytes(SubSeq(b, 3, Len(b))) \o <<256 * b[2] + b[1]>>

\* u32::MIN, u32::MAX, u64::MIN, u64::MAX
u32_MIN == <<0, 0>>

u32_MAX == <<65535, 65535>>

u64_MIN == <<0, 0, 0, 0>>

u64_MAX == <<65535, 65535, 65535, 65535>>

\* VolumeId32::from_u32 / VolumeId64::from_u64
from_u32(v) == from_bytes(to_le_bytes(v))

from_u64(v) == from_bytes(to_le_bytes(v))

\* VolumeId32::from_u32_be / VolumeId64::from_u64_be
from_u32_be(v) == from_bytes(to_be_bytes(v))

from_u64_be(v) == from_bytes(to_be_bytes(v))

\* VolumeId32::as_bytes / VolumeId64::as_bytes
as_bytes(self) == self

\* VolumeId32::into_bytes / VolumeId64::into_bytes
into_bytes(self) == self

\* to_bytes_be of VolumeId32 exchanging the bytes of each half only
to_bytes_be32_halves(self) == <<At(self, 1), At(self, 0), At(self, 3), At(self, 2)>>

\* VolumeId32::to_bytes_be
to_bytes_be32(self) == <<At(self, 3), At(self, 2), At(self, 1), At(self, 0)>>

\* VolumeId64::to_bytes_be
to_bytes_be64(self) ==
    <<At(self, 7), At(self, 6), At(self, 5), At(self, 4),
      At(self, 3), At(self, 2), At(self, 1), At(self, 0)>>

\* as_u32 of VolumeId32 reading the stored bytes most significant first
as_u32_from_be(self) == from_be_bytes(as_bytes(self))

\* VolumeId32::as_u32 / VolumeId64::as_u64
as_u32(self) == from_le_bytes(as_bytes(self))

as_u64(self) == from_le_bytes(as_bytes(self))

\* VolumeId32::as_u32_be / VolumeId64::as_u64_be
as_u32_be(self) == from_be_bytes(as_bytes(self))

as_u64_be(self) == from_be_bytes(as_bytes(self))

\* `x as u32` of a u16 and `x as u64` of a u32: zero extension
u16_as_u32(x) == <<0, x>>

u32_as_u64(x) == <<0, 0>> \o x

\* v << (16 * n) in the width of v: the n highest parts are shifted out
shl16(v, n) == SubSeq(v, n + 1, Len(v)) \o [k \in 1..n |-> 0]

\* a | b of two integers of the same width
bitor(a, b) == [k \in 1..Len(a) |-> BitOr(a[k], b[k])]

\* from_u16_pair of VolumeId32 with the two halves exchanged
from_u16_pair_exchanged(high_bits, low_bits) ==
    from_u32(bitor(shl16(u16_as_u32(low_bits), 1), u16_as_u32(high_bits)))

\* VolumeId32::from_u16_pair
from_u16_pair(high_bits, low_bits) ==
    from_u32(bitor(shl16(u16_as_u32(high_bits), 1), u16_as_u32(low_bits)))

\* VolumeId32::from_u16_pair_be
from_u16_pair_be(high_bits, low_bits) ==
    from_u32_be(bitor(shl16(u16_as_u32(high_bits), 1), u16_as_u32(low_bits)))

\* VolumeId64::from_u32_pair
from_u32_pair(high_bits, low_bits) ==
    from_u64(bitor(shl16(u32_as_u64(high_bits), 2), u32_as_u64(low_bits)))

\* VolumeId64::from_u32_pair_be
from_u32_pair_be(high_bits, low_bits) ==
    from_u64_be(bitor(shl16(u32_as_u64(high_bits), 2), u32_as_u64(low_bits)))

\* is_nil of VolumeId32 looking at the low half of as_u32 only
is_nil32_low_half(self) == as_u32(self)[2] = u32_MIN[2]

\* VolumeId32::is_nil / VolumeId64::is_nil
is_nil32(self) == as_u32(self) = u32_MIN

is_nil64(self) == as_u64(self) = u64_MIN

\* VolumeId32::is_max / VolumeId64::is_max
is_max32(self) == as_u32(self) = u32_MAX

is_max64(self) == as_u64(self) = u64_MAX

----------------------------------------------------------------------------
(* 32-bit parser, id32/parser.rs *)

\* the while loop of parse_simpleid32, from index i with buf filled so far
RECURSIVE parse_simpleid32_loop(_, _, _)
parse_simpleid32_loop(s, i, buf) ==
    IF i < 4 THEN
        IF i * 2 + 1 >= Len(s) THEN Panicked
        ELSE
            LET h1 == HEX_TABLE[At(s, i * 2)]
                h2 == HEX_TABLE[At(s, i * 2 + 1)]
            IN  IF BitOr(h1, h2) = 255 THEN Invalid(s)
                ELSE parse_simpleid32_loop(s, i + 1,
                        [buf EXCEPT ![i + 1] = BitOr(SHL4_TABLE[h1], h2)])
    ELSE OkId(buf)

\* parse_simpleid32 rejecting with the slice up to the offending pair only
parse_simpleid32_prefix(s) ==
    LET r == IF Len(s) # SimpleId32_LENGTH THEN Invalid(s)
             ELSE parse_simpleid32_loop(s, 0, <<0, 0, 0, 0>>)
        bad == {i \in 0..3 : i * 2 + 1 < Len(s) /\
                    BitOr(HEX_TABLE[At(s, i * 2)], HEX_TABLE[At(s, i * 2 + 1)]) = 255}
    IN  IF r.tag = "Invalid" /\ bad # {}
        THEN Invalid(SubSeq(s, 1, 2 * (CHOOSE i \in bad : \A j \in bad : i <= j) + 2))
        ELSE r

parse_simpleid32(s) ==
    IF Len(s) # SimpleId32_LENGTH THEN Invalid(s)
    ELSE parse_simpleid32_loop(s, 0, <<0, 0, 0, 0>>)

\* the while loop of parse_hyphenatedid32 over positions = [0, 5]
RECURSIVE parse_hyphenatedid32_loop(_, _, _)
parse_hyphenatedid32_loop(s, j, buf) ==
    IF j < 2 THEN
        LET i == At(<<0, 5>>, j) IN
        IF i + 3 >= Len(s) THEN Panicked
        ELSE
            LET h1 == HEX_TABLE[At(s, i)]
                h2 == HEX_TABLE[At(s, i + 1)]
                h3 == HEX_TABLE[At(s, i + 2)]
                h4 == HEX_TABLE[At(s, i + 3)]
            IN  IF BitOr(BitOr(BitOr(h1, h2), h3), h4) = 255 THEN Invalid(s)
                ELSE parse_hyphenatedid32_loop(s, j + 1,
                        [buf EXCEPT ![j * 2 + 1] = BitOr(SHL4_TABLE[h1], h2),
                                    ![j * 2 + 2] = BitOr(SHL4_TABLE[h3], h4)])
    ELSE OkId(buf)

\* parse_hyphenatedid32 without the test of the 0xff sentinel
parse_hyphenatedid32_nosentinel(s) ==
    IF Len(s) # HyphenatedId32_LENGTH THEN Invalid(s)
    ELSE IF At(s, 4) # HYPHEN THEN Invalid(s)
    ELSE OkId([k \in 1..4 |->
            LET i == IF k <= 2 THEN 2 * (k - 1) ELSE 2 * (k - 1) + 1 IN
            BitOr(SHL4_TABLE[HEX_TABLE[At(s, i)]], HEX_TABLE[At(s, i + 1)])])

\* parse_hyphenatedid32 storing the two bytes of a group in exchanged places
parse_hyphenatedid32_swapped(s) ==
    LET r == IF Len(s) # HyphenatedId32_LENGTH THEN Invalid(s)
             ELSE IF At(s, 4) # HYPHEN THEN Invalid(s)
             ELSE parse_hyphenatedid32_loop(s, 0, <<0, 0, 0, 0>>)
    IN  IF r.tag = "Ok"
        THEN OkId(<<r.bytes[2], r.bytes[1], r.bytes[4], r.bytes[3]>>)
        ELSE r

parse_hyphenatedid32(s) ==
    IF Len(s) # HyphenatedId32_LENGTH THEN Invalid(s)
    ELSE IF At(s, 4) # HYPHEN THEN Invalid(s)
    ELSE parse_hyphenatedid32_loop(s, 0, <<0, 0, 0, 0>>)

\* VolumeId32::try_parse_ascii
try_parse_ascii32_hyphenated_only(s) ==
    IF Len(s) = 9 THEN
        LET r == parse_hyphenatedid32(s) IN
        IF r.tag = "Ok" THEN OkId(from_bytes(r.bytes)) ELSE r
    ELSE Invalid(s)

try_parse_ascii32(s) ==
    IF Len(s) = 8 THEN
        LET r == parse_simpleid32(s) IN
        IF r.tag = "Ok" THEN OkId(from_bytes(r.bytes)) ELSE r
    ELSE IF Len(s) = 9 THEN
        LET r == parse_hyphenatedid32(s) IN
        IF r.tag = "Ok" THEN OkId(from_bytes(r.bytes)) ELSE r
    ELSE Invalid(s)

----------------------------------------------------------------------------
(* 64-bit parser, id64/parser.rs *)

RECURSIVE parse_simpleid64_loop(_, _, _)
parse_simpleid64_loop(s, i, buf) ==
    IF i < 8 THEN
        IF i * 2 + 1 >= Len(s) THEN Panicked
        ELSE
            LET h1 == common_HEX_TABLE[At(s, i * 2)]
                h2 == common_HEX_TABLE[At(s, i * 2 + 1)]
            IN  IF BitOr(h1, h2) = 255 THEN Invalid(s)
                ELSE parse_simpleid64_loop(s, i + 1,
                        [buf EXCEPT ![i + 1] = BitOr(common_SHL4_TABLE[h1], h2)])
    ELSE OkId(buf)

parse_simpleid64(s) ==
    IF Len(s) # SimpleId64_LENGTH THEN Invalid(s)
    ELSE parse_simpleid64_loop(s, 0, <<0, 0, 0, 0, 0, 0, 0, 0>>)

\* try_parse_ascii of VolumeId64 that also takes a 17-byte form with a hyphen
\* in the middle
try_parse_ascii64_hyphenated(s) ==
    IF Len(s) = 16 THEN parse_simpleid64(s)
    ELSE IF Len(s) = 17 /\ At(s, 8) = HYPHEN
        THEN parse_simpleid64(SubSeq(s, 1, 8) \o SubSeq(s, 10, 17))
    ELSE Invalid(s)

\* VolumeId64::try_parse_ascii
try_parse_ascii64(s) ==
    IF Len(s) = 16 THEN
        LET r == parse_simpleid64(s) IN
        IF r.tag = "Ok" THEN OkId(from_bytes(r.bytes)) ELSE r
    ELSE Invalid(s)

----------------------------------------------------------------------------
(* Formatters, id32/fmt.rs and id64/fmt.rs *)

\* a formatting call that panicked, or the array it returned
FmtPanic == [panic |-> TRUE, dst |-> <<>>]

FmtDone(dst) == [panic |-> FALSE, dst |-> dst]

Zeros(n) == [k \in 1..n |-> 0]

\* x >> 4 and x & 0x0f
HiNibble(x) == x \div 16

LoNibble(x) == x % 16

\* the while loop of format_simpleid32: `while i < 16` over src: &[u8; 4]
RECURSIVE format_simpleid32_loop(_, _, _, _)
format_simpleid32_loop(src, lut, i, dst) ==
    IF i < 16 THEN
        IF i >= Len(src) THEN FmtPanic
        ELSE IF i * 2 + 1 >= Len(dst) THEN FmtPanic
        ELSE LET x == At(src, i) IN
             format_simpleid32_loop(src, lut, i + 1,
                [dst EXCEPT ![i * 2 + 1] = At(lut, HiNibble(x)),
                            ![i * 2 + 2] = At(lut, LoNibble(x))])
    ELSE FmtDone(dst)

format_simpleid32(src, upper) ==
    format_simpleid32_loop(src, IF upper THEN UPPER ELSE LOWER, 0,
                           Zeros(SimpleId32_LENGTH))

\* groups = [(0, 4), (5, 8)]
Hyphenated_groups == <<(<<0, 4>>), (<<5, 8>>)>>

\* the inner loop of format_hyphenatedid32: `while j < end`, two characters a byte
RECURSIVE format_hyphenatedid32_inner(_, _, _, _, _, _)
format_hyphenatedid32_inner(src, lut, j, end, i, dst) ==
    IF j < end THEN
        IF i >= Len(src) THEN [panic |-> TRUE, dst |-> <<>>, i |-> i]
        ELSE IF j + 1 >= Len(dst) THEN [panic |-> TRUE, dst |-> <<>>, i |-> i]
        ELSE LET x == At(src, i) IN
             format_hyphenatedid32_inner(src, lut, j + 2, end, i + 1,
                [dst EXCEPT ![j + 1] = At(lut, HiNibble(x)),
                            ![j + 2] = At(lut, LoNibble(x))])
    ELSE [panic |-> FALSE, dst |-> dst, i |-> i]

\* the outer loop of format_hyphenatedid32: `while group_idx < 2`
RECURSIVE format_hyphenatedid32_outer(_, _, _, _, _)
format_hyphenatedid32_outer(src, lut, group_idx, i, dst) ==
    IF group_idx < 2 THEN
        LET start == At(Hyphenated_groups, group_idx)[1]
            end   == At(Hyphenated_groups, group_idx)[2]
            r     == format_hyphenatedid32_inner(src, lut, start, end, i, dst)
        IN  IF r.panic THEN FmtPanic
            ELSE IF group_idx < 1 THEN
                IF end >= Len(dst) THEN FmtPanic
                ELSE format_hyphenatedid32_outer(src, lut, group_idx + 1, r.i,
                        [r.dst EXCEPT ![end + 1] = HYPHEN])
            ELSE format_hyphenatedid32_outer(src, lut, group_idx + 1, r.i, r.dst)
    ELSE FmtDone(dst)

\* format_hyphenatedid32 with the second group taken as (5, 7): the last byte
\* is never written
format_hyphenatedid32_shortgroup(src, upper) ==
    LET f == format_hyphenatedid32_outer(src, IF upper THEN UPPER ELSE LOWER, 0, 0,
                                         Zeros(HyphenatedId32_LENGTH))
    IN  IF f.panic THEN f ELSE FmtDone([f.dst EXCEPT ![8] = 0, ![9] = 0])

format_hyphenatedid32(src, upper) ==
    format_hyphenatedid32_outer(src, IF upper THEN UPPER ELSE LOWER, 0, 0,
                                Zeros(HyphenatedId32_LENGTH))

\* the while loop of format_simpleid64: `while i < SimpleId64::LENGTH / 2`
RECURSIVE format_simpleid64_loop(_, _, _, _)
format_simpleid64_loop(src, lut, i, dst) ==
    IF i < SimpleId64_LENGTH \div 2 THEN
        IF i >= Len(src) THEN FmtPanic
        ELSE IF i * 2 + 1 >= Len(dst) THEN FmtPanic
        ELSE LET x == At(src, i) IN
             format_simpleid64_loop(src, lut, i + 1,
                [dst EXCEPT ![i * 2 + 1] = At(lut, HiNibble(x)),
                            ![i * 2 + 2] = At(lut, LoNibble(x))])
    ELSE FmtDone(dst)

\* format_simpleid64 with the two nibbles of every byte exchanged
format_simpleid64_swapped(src, upper) ==
    LET lut == IF upper THEN UPPER ELSE LOWER IN
    FmtDone([k \in 1..SimpleId64_LENGTH |->
                IF k % 2 = 1 THEN At(lut, LoNibble(src[(k + 1) \div 2]))
                ELSE At(lut, HiNibble(src[k \div 2]))])

format_simpleid64(src, upper) ==
    format_simpleid64_loop(src, IF upper THEN UPPER ELSE LOWER, 0,
                           Zeros(SimpleId64_LENGTH))

\* what a call of _encode leaves behind: whether it panicked, the caller's
\* buffer afterwards and the returned text
EncPanic(buf) == [panic |-> TRUE, buffer |-> buf, text |-> <<>>]

\* the write returning the whole buffer as the text
EncWrite_whole(buf, dst) ==
    [panic  |-> FALSE,
     buffer |-> [k \in 1..Len(buf) |-> IF k <= Len(dst) THEN dst[k] ELSE buf[k]],
     text   |-> [k \in 1..Len(buf) |-> IF k <= Len(dst) THEN dst[k] ELSE buf[k]]]

\* *buf = dst over buffer[..LENGTH]; the returned str is that prefix
EncWrite(buf, dst) ==
    [panic  |-> FALSE,
     buffer |-> [k \in 1..Len(buf) |-> IF k <= Len(dst) THEN dst[k] ELSE buf[k]],
     text   |-> dst]

\* SimpleId32::_encode
SimpleId32_encode(src, buf, upper) ==
    IF ~(Len(buf) >= SimpleId32_LENGTH) THEN EncPanic(buf)
    ELSE LET f == format_simpleid32(src, upper) IN
         IF f.panic THEN EncPanic(buf) ELSE EncWrite(buf, f.dst)

\* _encode of HyphenatedId32 writing what fits before it looks at the length
HyphenatedId32_encode_late_check(src, buf, upper) ==
    LET f == format_hyphenatedid32(src, upper) IN
    IF f.panic THEN EncPanic(buf)
    ELSE IF ~(Len(buf) >= HyphenatedId32_LENGTH)
         THEN EncPanic([k \in 1..Len(buf) |-> f.dst[k]])
         ELSE EncWrite(buf, f.dst)

\* HyphenatedId32::_encode
HyphenatedId32_encode(src, buf, upper) ==
    IF ~(Len(buf) >= HyphenatedId32_LENGTH) THEN EncPanic(buf)
    ELSE LET f == format_hyphenatedid32(src, upper) IN
         IF f.panic THEN EncPanic(buf) ELSE EncWrite(buf, f.dst)

\* SimpleId64::_encode
SimpleId64_encode(src, buf, upper) ==
    IF ~(Len(buf) >= SimpleId64_LENGTH) THEN EncPanic(buf)
    ELSE LET f == format_simpleid64(src, upper) IN
         IF f.panic THEN EncPanic(buf) ELSE EncWrite(buf, f.dst)

\* #[derive(PartialEq, Eq)] on VolumeId32([u8; 4]) / VolumeId64([u8; 8]):
\* the arrays are equal element by element
PartialEq_eq(self, other) ==
    /\ Len(self) = Len(other)
    /\ \A k \in 1..Len(self) : self[k] = other[k]

\* the comparison taking the identifiers as the integers as_u32 / as_u64
\* return
RECURSIVE Ord_cmp_as_integer(_, _)
Ord_cmp_as_integer(self, other) ==
    IF self = <<>> THEN "Equal"
    ELSE IF self[Len(self)] < other[Len(other)] THEN "Less"
    ELSE IF self[Len(self)] > other[Len(other)] THEN "Greater"
    ELSE Ord_cmp_as_integer(SubSeq(self, 1, Len(self) - 1),
                            SubSeq(other, 1, Len(other) - 1))

\* #[derive(PartialOrd, Ord)]: the arrays are compared element by element
\* from index 0, the first difference decides
RECURSIVE Ord_cmp(_, _)
Ord_cmp(self, other) ==
    IF self = <<>> THEN "Equal"
    ELSE IF Head(self) < Head(other) THEN "Less"
    ELSE IF Head(self) > Head(other) THEN "Greater"
    ELSE Ord_cmp(Tail(self), Tail(other))

\* PartialOrd::lt: partial_cmp(other) == Some(Less)
PartialOrd_lt(self, other) == Ord_cmp(self, other) = "Less"

----------------------------------------------------------------------------
(* Display, LowerHex and to_string of the identifiers, id32/fmt.rs and      *)
(* id64/fmt.rs                                                              *)

\* the lowercase digit core::fmt writes for a value below 16
lower_hex_digit(d) == IF d < 10 THEN 48 + d ELSE 97 + (d - 10)

\* the digits of n in radix 16, without leading zeros
RECURSIVE lower_hex(_)
lower_hex(n) ==
    IF n < 16 THEN <<lower_hex_digit(n)>>
    ELSE lower_hex(n \div 16) \o <<lower_hex_digit(n % 16)>>

\* write!(f, "{:x}", byte): no minimum width
fmt_x(byte) == lower_hex(byte)

\* write!(f, "{:02x}", byte): at least two characters, padded with '0'
fmt_02x(byte) ==
    LET digits == lower_hex(byte) IN
    IF Len(digits) < 2 THEN [k \in 1..(2 - Len(digits)) |-> 48] \o digits
    ELSE digits

\* <VolumeId32 as LowerHex>::fmt / <VolumeId64 as LowerHex>::fmt:
\* `for byte in &self.0 { write!(f, "{:02x}", byte)?; }`
RECURSIVE LowerHex_fmt(_)
LowerHex_fmt(self) ==
    IF self = <<>> THEN <<>>
    ELSE fmt_02x(Head(self)) \o LowerHex_fmt(Tail(self))

\* <VolumeId32 as Display>::fmt / <VolumeId64 as Display>::fmt
Display_fmt(self) == LowerHex_fmt(self)

\* ToString::to_string: the text Display writes
to_string(self) == Display_fmt(self)

----------------------------------------------------------------------------
(* core::str::from_utf8 and str::char_indices *)

IsCont(b) == 128 <= b /\ b <= 191

\* number of bytes of the UTF-8 sequence that starts at index i of s, 0 when
\* the bytes there are not a well-formed sequence
Utf8Width(s, i) ==
    LET n  == Len(s)
        b0 == At(s, i)
        b1 == IF i + 1 < n THEN At(s, i + 1) ELSE 0
        b2 == IF i + 2 < n THEN At(s, i + 2) ELSE 0
        b3 == IF i + 3 < n THEN At(s, i + 3) ELSE 0
    IN  IF b0 < 128 THEN 1
        ELSE IF 194 <= b0 /\ b0 <= 223 THEN (IF IsCont(b1) THEN 2 ELSE 0)
        ELSE IF b0 = 224 THEN (IF 160 <= b1 /\ b1 <= 191 /\ IsCont(b2) THEN 3 ELSE 0)
        ELSE IF b0 = 237 THEN (IF 128 <= b1 /\ b1 <= 159 /\ IsCont(b2) THEN 3 ELSE 0)
        ELSE IF 225 <= b0 /\ b0 <= 239 THEN (IF IsCont(b1) /\ IsCont(b2) THEN 3 ELSE 0)
        ELSE IF b0 = 240 THEN
            (IF 144 <= b1 /\ b1 <= 191 /\ IsCont(b2) /\ IsCont(b3) THEN 4 ELSE 0)
        ELSE IF 241 <= b0 /\ b0 <= 243 THEN
            (IF IsCont(b1) /\ IsCont(b2) /\ IsCont(b3) THEN 4 ELSE 0)
        ELSE IF b0 = 244 THEN
            (IF 128 <= b1 /\ b1 <= 143 /\ IsCont(b2) /\ IsCont(b3) THEN 4 ELSE 0)
        ELSE 0

\* the code point of the w-byte sequence at index i
Utf8CodePoint(s, i, w) ==
    IF w = 1 THEN At(s, i)
    ELSE IF w = 2 THEN (At(s, i) % 32) * 64 + (At(s, i + 1) % 64)
    ELSE IF w = 3 THEN
        (At(s, i) % 16) * 4096 + (At(s, i + 1) % 64) * 64 + (At(s, i + 2) % 64)
    ELSE (At(s, i) % 8) * 262144 + (At(s, i + 1) % 64) * 4096
            + (At(s, i + 2) % 64) * 64 + (At(s, i + 3) % 64)

\* from_utf8(s) followed by char_indices(): the (byte index, character) pairs
\* of s, or valid = FALSE when s is not UTF-8
RECURSIVE char_indices_from(_, _, _)
char_indices_from(s, i, acc) ==
    IF i >= Len(s) THEN [valid |-> TRUE, chars |-> acc]
    ELSE LET w == Utf8Width(s, i) IN
         IF w = 0 THEN [valid |-> FALSE, chars |-> <<>>]
         ELSE char_indices_from(s, i + w,
                Append(acc, [index |-> i, character |-> Utf8CodePoint(s, i, w)]))

char_indices(s) == char_indices_from(s, 0, <<>>)

from_utf8_ok(s) == char_indices(s).valid

----------------------------------------------------------------------------
(* Diagnostics, id32/error.rs and id64/error.rs *)

ParseChar(character, index) ==
    [kind |-> "ParseChar", character |-> character, index |-> index]

ParseSimpleLength(len) == [kind |-> "ParseSimpleLength", len |-> len]

ParseGroupCount(count) == [kind |-> "ParseGroupCount", count |-> count]

ParseGroupLength(group, len, index) ==
    [kind |-> "ParseGroupLength", group |-> group, len |-> len, index |-> index]

ParseInvalidUTF8 == [kind |-> "ParseInvalidUTF8"]

ParseOther == [kind |-> "ParseOther"]

\* const BLOCK_STARTS: [usize; 2] = [0, 5]
BLOCK_STARTS == <<0, 5>>

\* the scan of InvalidVolumeId32::into_err over char_indices, from the k-th
\* pair on: an early return, or the counters at the end of the scan
RECURSIVE into_err32_scan(_, _, _, _)
into_err32_scan(chars, k, hyphen_count, group_bounds) ==
    IF k > Len(chars) THEN
        [returned |-> FALSE, err |-> NoErr,
         hyphen_count |-> hyphen_count, group_bounds |-> group_bounds]
    ELSE
        LET index     == chars[k].index
            character == chars[k].character
            byte      == character % 256
        IN  IF character - byte > 0 THEN
                [returned |-> TRUE, err |-> ParseChar(character, index + 1),
                 hyphen_count |-> hyphen_count, group_bounds |-> group_bounds]
            ELSE IF byte = HYPHEN THEN
                into_err32_scan(chars, k + 1, hyphen_count + 1,
                    IF hyphen_count < 1
                    THEN [group_bounds EXCEPT ![hyphen_count + 1] = index]
                    ELSE group_bounds)
            ELSE IF ~is_ascii_hexdigit(byte) THEN
                [returned |-> TRUE, err |-> ParseChar(byte, index + 1),
                 hyphen_count |-> hyphen_count, group_bounds |-> group_bounds]
            ELSE into_err32_scan(chars, k + 1, hyphen_count, group_bounds)

\* the group check with the hyphen counted into the length of the last group
into_err32_groups_with_hyphen(len, group_bounds) ==
    LET i == 0 IN
    IF At(group_bounds, i) # At(BLOCK_STARTS, i + 1) - 1 THEN
        IF At(group_bounds, i) < At(BLOCK_STARTS, i) THEN Panicked
        ELSE Failed(ParseGroupLength(i, At(group_bounds, i) - At(BLOCK_STARTS, i),
                                     At(BLOCK_STARTS, i) + 1))
    ELSE IF len < At(BLOCK_STARTS, 1) - 1 THEN Panicked
    ELSE Failed(ParseGroupLength(1, len - (At(BLOCK_STARTS, 1) - 1),
                                 At(BLOCK_STARTS, 1) + 1))

\* the group check measuring the first group from the start of the next one
into_err32_groups_next_start(len, group_bounds) ==
    LET i == 0 IN
    IF At(group_bounds, i) # At(BLOCK_STARTS, i + 1) - 1 THEN
        IF At(group_bounds, i) < At(BLOCK_STARTS, i + 1) THEN Panicked
        ELSE Failed(ParseGroupLength(i, At(group_bounds, i) - At(BLOCK_STARTS, i + 1),
                                     At(BLOCK_STARTS, i) + 1))
    ELSE IF len < At(BLOCK_STARTS, 1) THEN Panicked
    ELSE Failed(ParseGroupLength(1, len - At(BLOCK_STARTS, 1),
                                 At(BLOCK_STARTS, 1) + 1))

\* `for i in 0..1` over the group boundaries, then the last group; a usize
\* subtraction that would go below zero is a panic
into_err32_groups(len, group_bounds) ==
    LET i == 0 IN
    IF At(group_bounds, i) # At(BLOCK_STARTS, i + 1) - 1 THEN
        IF At(group_bounds, i) < At(BLOCK_STARTS, i) THEN Panicked
        ELSE Failed(ParseGroupLength(i, At(group_bounds, i) - At(BLOCK_STARTS, i),
                                     At(BLOCK_STARTS, i) + 1))
    ELSE IF len < At(BLOCK_STARTS, 1) THEN Panicked
    ELSE Failed(ParseGroupLength(1, len - At(BLOCK_STARTS, 1),
                                 At(BLOCK_STARTS, 1) + 1))

\* into_err of InvalidVolumeId32 reporting the 0-based index of the character
into_err32_zero_based(rejected) ==
    LET d == char_indices(rejected) IN
    IF ~d.valid THEN Failed(ParseInvalidUTF8)
    ELSE LET sc == into_err32_scan(d.chars, 1, 0, <<0, 0, 0, 0>>) IN
         IF sc.returned THEN Failed([sc.err EXCEPT !.index = @ - 1])
         ELSE IF sc.hyphen_count = 0 THEN Failed(ParseSimpleLength(Len(rejected)))
         ELSE IF sc.hyphen_count # 1 THEN Failed(ParseGroupCount(sc.hyphen_count + 1))
         ELSE into_err32_groups(Len(rejected), sc.group_bounds)

\* into_err of InvalidVolumeId32 reporting the expected length of the simple
\* layout instead of the observed one
into_err32_expected_len(rejected) ==
    LET d == char_indices(rejected) IN
    IF ~d.valid THEN Failed(ParseInvalidUTF8)
    ELSE LET sc == into_err32_scan(d.chars, 1, 0, <<0, 0, 0, 0>>) IN
         IF sc.returned THEN Failed(sc.err)
         ELSE IF sc.hyphen_count = 0 THEN Failed(ParseSimpleLength(SimpleId32_LENGTH))
         ELSE IF sc.hyphen_count # 1 THEN Failed(ParseGroupCount(sc.hyphen_count + 1))
         ELSE into_err32_groups(Len(rejected), sc.group_bounds)

\* into_err of InvalidVolumeId32 counting the hyphens instead of the groups
into_err32_hyphens(rejected) ==
    LET d == char_indices(rejected) IN
    IF ~d.valid THEN Failed(ParseInvalidUTF8)
    ELSE LET sc == into_err32_scan(d.chars, 1, 0, <<0, 0, 0, 0>>) IN
         IF sc.returned THEN Failed(sc.err)
         ELSE IF sc.hyphen_count = 0 THEN Failed(ParseSimpleLength(Len(rejected)))
         ELSE IF sc.hyphen_count # 1 THEN Failed(ParseGroupCount(sc.hyphen_count))
         ELSE into_err32_groups(Len(rejected), sc.group_bounds)

\* into_err of InvalidVolumeId32 scanning the characters that decode before
\* it looks at the validity of the encoding
into_err32_scan_first(rejected) ==
    LET d  == char_indices(rejected)
        ok == {n \in 0..Len(rejected) : char_indices(SubSeq(rejected, 1, n)).valid}
        up == CHOOSE n \in ok : \A m \in ok : m <= n
        sc == into_err32_scan(char_indices(SubSeq(rejected, 1, up)).chars,
                              1, 0, <<0, 0, 0, 0>>)
    IN  IF sc.returned THEN Failed(sc.err)
        ELSE IF ~d.valid THEN Failed(ParseInvalidUTF8)
        ELSE IF sc.hyphen_count = 0 THEN Failed(ParseSimpleLength(Len(rejected)))
        ELSE IF sc.hyphen_count # 1 THEN Failed(ParseGroupCount(sc.hyphen_count + 1))
        ELSE into_err32_groups(Len(rejected), sc.group_bounds)

\* InvalidVolumeId32::into_err
into_err32(rejected) ==
    LET d == char_indices(rejected) IN
    IF ~d.valid THEN Failed(ParseInvalidUTF8)
    ELSE LET sc == into_err32_scan(d.chars, 1, 0, <<0, 0, 0, 0>>) IN
         IF sc.returned THEN Failed(sc.err)
         ELSE IF sc.hyphen_count = 0 THEN Failed(ParseSimpleLength(Len(rejected)))
         ELSE IF sc.hyphen_count # 1 THEN Failed(ParseGroupCount(sc.hyphen_count + 1))
         ELSE into_err32_groups(Len(rejected), sc.group_bounds)

\* write!(f, template, args...): the format string and the values Display
\* puts in the place of each `{}`, in order
Written(template, args) == [panic |-> FALSE, template |-> template, args |-> args]

\* the index of `[8, 4, 4, 4, 12][group]` is out of bounds
WritePanic == [panic |-> TRUE, template |-> "", args |-> <<>>]

\* <id32::error::Error as Display>::fmt; the two grave accents that enclose
\* the character in the first message are written here as apostrophes
Error_fmt32(e) ==
    IF e.kind = "ParseChar" THEN
        Written("invalid character: expected [0-9a-fA-F-], found '{}' at {}",
                <<e.character, e.index>>)
    ELSE IF e.kind = "ParseSimpleLength" THEN
        Written("invalid length: expected length for simple format, found {}",
                <<e.len>>)
    ELSE IF e.kind = "ParseByteLength" THEN
        Written("invalid byte length, found {}", <<e.len>>)
    ELSE IF e.kind = "ParseGroupCount" THEN
        Written("invalid group count: expected 2, found {}", <<e.count>>)
    ELSE IF e.kind = "ParseGroupLength" THEN
        IF e.group >= Len(<<8, 4, 4, 4, 12>>) THEN WritePanic
        ELSE LET expected == At(<<8, 4, 4, 4, 12>>, e.group) IN
             Written("invalid group length in group {}: expected {}, found {}",
                     <<e.group, expected, e.len>>)
    ELSE IF e.kind = "ParseInvalidUTF8" THEN Written("non-UTF8 input", <<>>)
    ELSE Written("failed to parse a VolumeId32", <<>>)

\* the scan of InvalidVolumeId64::into_err: the first character that is not
\* a hex digit, or NoErr when there is none
RECURSIVE into_err64_scan(_, _)
into_err64_scan(chars, k) ==
    IF k > Len(chars) THEN NoErr
    ELSE
        LET index     == chars[k].index
            character == chars[k].character
            byte      == character % 256
        IN  IF character - byte > 0 THEN ParseChar(character, index + 1)
            ELSE IF ~is_ascii_hexdigit(byte) THEN ParseChar(byte, index + 1)
            ELSE into_err64_scan(chars, k + 1)

\* into_err of InvalidVolumeId64 classifying as the 32-bit one does
into_err64_as_32(rejected) == into_err32(rejected)

\* InvalidVolumeId64::into_err
into_err64(rejected) ==
    LET d == char_indices(rejected) IN
    IF ~d.valid THEN Failed(ParseInvalidUTF8)
    ELSE LET e == into_err64_scan(d.chars, 1) IN
         IF e # NoErr THEN Failed(e)
         ELSE Failed(ParseSimpleLength(Len(rejected)))

\* VolumeId32::parse: try_parse_ascii(input.as_bytes()).map_err(into_err)
parse32(s) ==
    LET r == try_parse_ascii32(s) IN
    IF r.tag = "Invalid" THEN into_err32(r.rejected) ELSE r

\* VolumeId64::parse
parse64(s) ==
    LET r == try_parse_ascii64(s) IN
    IF r.tag = "Invalid" THEN into_err64(r.rejected) ELSE r

\* VolumeId32::try_parse / VolumeId64::try_parse: try_parse_ascii(input.as_bytes())
try_parse32(s) == try_parse_ascii32(s)

try_parse64(s) == try_parse_ascii64(s)

\* .map_err(|_| Error(ErrorKind::ParseOther))
map_err_ParseOther(r) == IF r.tag = "Invalid" THEN Failed(ParseOther) ELSE r

\* <VolumeId32 as FromStr>::from_str
from_str32(s) == map_err_ParseOther(try_parse32(s))

\* <VolumeId32 as TryFrom<&str>>::try_from
try_from_str32(s) == map_err_ParseOther(try_parse32(s))

\* <VolumeId64 as FromStr>::from_str
from_str64(s) == map_err_ParseOther(try_parse64(s))

\* <VolumeId64 as TryFrom<&str>>::try_from
try_from_str64(s) == map_err_ParseOther(try_parse64(s))

----------------------------------------------------------------------------
(* The parser of the crate root, src/parser.rs *)

\* parser.rs HEX_TABLE
root_HEX_TABLE ==
    [i \in Byte |->
        IF 48 <= i /\ i <= 57 THEN i - 48
        ELSE IF 97 <= i /\ i <= 102 THEN i - 97 + 10
        ELSE IF 65 <= i /\ i <= 70 THEN i - 65 + 10
        ELSE 255]

\* parser.rs SHL4_TABLE
root_SHL4_TABLE == [i \in Byte |-> (i * 16) % 256]

\* the while loop of parser::parse_simpleid32
RECURSIVE root_parse_simpleid32_loop(_, _, _)
root_parse_simpleid32_loop(s, i, buf) ==
    IF i < 4 THEN
        IF i * 2 + 1 >= Len(s) THEN Panicked
        ELSE
            LET h1 == root_HEX_TABLE[At(s, i * 2)]
                h2 == root_HEX_TABLE[At(s, i * 2 + 1)]
            IN  IF BitOr(h1, h2) = 255 THEN Invalid(s)
                ELSE root_parse_simpleid32_loop(s, i + 1,
                        [buf EXCEPT ![i + 1] = BitOr(root_SHL4_TABLE[h1], h2)])
    ELSE OkId(buf)

\* parser::parse_simpleid32
root_parse_simpleid32(s) ==
    IF Len(s) # 8 THEN Invalid(s)
    ELSE root_parse_simpleid32_loop(s, 0, <<0, 0, 0, 0>>)

\* the while loop of parser::parse_hyphenated: no test of the sentinel
RECURSIVE root_parse_hyphenated_loop(_, _, _)
root_parse_hyphenated_loop(s, j, buf) ==
    IF j < 2 THEN
        LET i == At(<<0, 5>>, j) IN
        IF i + 3 >= Len(s) THEN Panicked
        ELSE
            LET h1 == root_HEX_TABLE[At(s, i)]
                h2 == root_HEX_TABLE[At(s, i + 1)]
                h3 == root_HEX_TABLE[At(s, i + 2)]
                h4 == root_HEX_TABLE[At(s, i + 3)]
            IN  root_parse_hyphenated_loop(s, j + 1,
                    [buf EXCEPT ![j * 2 + 1] = BitOr(root_SHL4_TABLE[h1], h2),
                                ![j * 2 + 2] = BitOr(root_SHL4_TABLE[h3], h4)])
    ELSE OkId(buf)

\* parser::parse_hyphenated
root_parse_hyphenated(s) ==
    IF Len(s) # 9 THEN Invalid(s)
    ELSE IF At(s, 4) # HYPHEN THEN Invalid(s)
    ELSE root_parse_hyphenated_loop(s, 0, <<0, 0, 0, 0>>)

\* VolumeId32::try_parse_ascii of the crate root: every rejection becomes
\* Error(ErrorKind::ParseOther)
root_try_parse_ascii(s) ==
    IF Len(s) = 8 THEN
        LET r == root_parse_simpleid32(s) IN
        IF r.tag = "Ok" THEN OkId(from_bytes(r.bytes))
        ELSE IF r.tag = "Invalid" THEN Failed(ParseOther) ELSE r
    ELSE IF Len(s) = 9 THEN
        LET r == root_parse_hyphenated(s) IN
        IF r.tag = "Ok" THEN OkId(from_bytes(r.bytes))
        ELSE IF r.tag = "Invalid" THEN Failed(ParseOther) ELSE r
    ELSE Failed(ParseOther)

----------------------------------------------------------------------------
(* Inputs of the exploration *)

\* the hex digits typed, by position: "6dDcF6a9B0e1C35f7A82"
HexSeed ==
    <<54, 100, 68, 99, 70, 54, 97, 57, 66, 48,
      101, 49, 67, 51, 53, 102, 55, 65, 56, 50>>

\* the other characters typed: '-', 'g', U+00E9, U+0100, the byte 0xFF which
\* no UTF-8 text contains, and the lead byte 0xC3 without its continuation
OddSyms == {<<45>>, <<103>>, <<195, 169>>, <<196, 128>>, <<255>>, <<195>>}

\* stored bytes the identifiers are built from
ByteSample32 == {0, 15, 109, 169, 255}

ByteSample64 == {109, 240}

\* the byte the caller's buffer is filled with before the call
FillSample == {0, 46}

\* characters of s, taking a continuation byte with the byte it follows
NSyms(s) == Cardinality({k \in 1..Len(s) : ~IsCont(s[k])})

\* characters of s that are not hex digits
NOdd(s) == Cardinality({k \in 1..Len(s) : ~IsCont(s[k]) /\ ~is_ascii_hexdigit(s[k])})

\* hyphens of s
NHyphen(s) == Cardinality({k \in 1..Len(s) : s[k] = HYPHEN})

Typable(s) ==
    \/ NSyms(s) <= MaxLen32 /\ NOdd(s) <= MaxOdd32
    \/ NSyms(s) <= MaxLen64 /\ NOdd(s) <= MaxOdd64
    \/ NSyms(s) <= MaxLen32 /\ NOdd(s) = NHyphen(s) /\ NHyphen(s) <= MaxHyphen32

BufLens(length) == {0} \cup ((length - 1)..(length + MaxExtra))

NoId == [width |-> 0, bytes |-> <<>>]

\* no constructor has been called
NotMade == [fn |-> "none", arg |-> <<>>]

\* bytes of the arrays and slices the other constructors are called with
BeSample32 == {0, 161, 255}

BeSample64 == {0, 255}

\* the bytes put next to each of the 256 bytes in the last pair of an input:
\* '0', 'F', 'G' and 0xFF
EdgeBytes == {48, 70, 71, 255}

\* the digits before that pair: "000000" and "0000-00"
PadSimple == <<48, 48, 48, 48, 48, 48>>

PadHyphenated == <<48, 48, 48, 48, 45, 48, 48>>

\* the identifiers an identifier is compared with
Others32 ==
    {<<0, 0, 0, 0>>, <<255, 255, 255, 255>>, <<0, 0, 0, 15>>, <<15, 0, 0, 0>>,
     <<109, 169, 15, 255>>}

Others64 ==
    {<<0, 0, 0, 0, 0, 0, 0, 0>>, <<255, 255, 255, 255, 255, 255, 255, 255>>,
     <<109, 109, 109, 109, 109, 109, 109, 240>>,
     <<240, 109, 109, 109, 109, 109, 109, 109>>}

\* slices of length 0..n over the bytes in S
Slices(S, n) == UNION {[1..k -> S] : k \in 0..n}

\* the u16 values 0, 0xa1a2, 0xa3a4 and u16::MAX
U16Sample == {0, 41378, 41892, 65535}

\* u32 values: every pair of halves from U16Sample
U32Sample == {<<h, l>> : h, l \in U16Sample}

\* the u32 values 0, 0xa1a2a3a4, 0xa5a6a7a8 and u32::MAX
U32PairSample == {<<0, 0>>, <<41378, 41892>>, <<42406, 42920>>, <<65535, 65535>>}

\* u64 values: every pair of halves from U32PairSample
U64Sample == {h \o l : h, l \in U32PairSample}

----------------------------------------------------------------------------
(* The state machine: a caller types an input and hands it to a parser, or  *)
(* builds an identifier, formats it and parses the text it got back.        *)

Init ==
    /\ pc = "start"
    /\ op = "none"
    /\ id = NoId
    /\ upcase = FALSE
    /\ before = <<>>
    /\ buffer = <<>>
    /\ text = <<>>
    /\ input = <<>>
    /\ result = NoResult
    /\ made = NotMade
    /\ ret = <<>>

Typing == pc \in {"start", "typing"}

\* the caller extends the input by the next hex digit
TypeHex ==
    /\ Typing
    /\ LET s == Append(input, HexSeed[(Len(input) % Len(HexSeed)) + 1]) IN
        /\ Typable(s)
        /\ input' = s
    /\ pc' = "typing"
    /\ UNCHANGED <<made, ret, op, id, upcase, before, buffer, text, result>>

\* the caller extends the input by a character that is not a hex digit
TypeOdd ==
    /\ Typing
    /\ \E sym \in OddSyms :
        /\ Typable(input \o sym)
        /\ input' = input \o sym
    /\ pc' = "typing"
    /\ UNCHANGED <<made, ret, op, id, upcase, before, buffer, text, result>>

\* a parser entry point is called on the typed input
CallParser(name, r) ==
    /\ Typing
    /\ op' = name
    /\ result' = r
    /\ pc' = "parsed"
    /\ UNCHANGED <<made, ret, id, upcase, before, buffer, text, input>>

TryParseAscii32 == CallParser("try_parse_ascii32", try_parse_ascii32(input))

TryParseAscii64 == CallParser("try_parse_ascii64", try_parse_ascii64(input))

\* VolumeId32::try_parse_ascii of the crate root
RootTryParseAscii == CallParser("root_try_parse_ascii", root_try_parse_ascii(input))

\* try_parse_ascii of VolumeId32 on 8 or 9 bytes that end in any byte next
\* to one of EdgeBytes
TryParseAscii32Bytes ==
    /\ pc = "start"
    /\ \E c \in Byte, e \in EdgeBytes, first \in BOOLEAN, hyphenated \in BOOLEAN :
        LET s == (IF hyphenated THEN PadHyphenated ELSE PadSimple)
                    \o (IF first THEN <<c, e>> ELSE <<e, c>>)
        IN  /\ input' = s
            /\ result' = try_parse_ascii32(s)
    /\ op' = "try_parse_ascii32"
    /\ pc' = "parsed"
    /\ UNCHANGED <<made, ret, id, upcase, before, buffer, text>>

\* the entry points that take &str are only reachable with UTF-8 input
TryParse32 == from_utf8_ok(input) /\ CallParser("try_parse32", try_parse32(input))

TryParse64 == from_utf8_ok(input) /\ CallParser("try_parse64", try_parse64(input))

Parse32 == from_utf8_ok(input) /\ CallParser("parse32", parse32(input))

Parse64 == from_utf8_ok(input) /\ CallParser("parse64", parse64(input))

FromStr32 == from_utf8_ok(input) /\ CallParser("from_str32", from_str32(input))

FromStr64 == from_utf8_ok(input) /\ CallParser("from_str64", from_str64(input))

TryFromStr32 == from_utf8_ok(input) /\ CallParser("try_from_str32", try_from_str32(input))

TryFromStr64 == from_utf8_ok(input) /\ CallParser("try_from_str64", try_from_str64(input))

\* into_err on the rejection a fast parser returned
IntoErr32 ==
    /\ pc = "parsed"
    /\ op \in {"try_parse_ascii32", "try_parse32"}
    /\ result.tag = "Invalid"
    /\ result' = into_err32(result.rejected)
    /\ op' = "into_err32"
    /\ pc' = "diagnosed"
    /\ UNCHANGED <<made, ret, id, upcase, before, buffer, text, input>>

IntoErr64 ==
    /\ pc = "parsed"
    /\ op \in {"try_parse_ascii64", "try_parse64"}
    /\ result.tag = "Invalid"
    /\ result' = into_err64(result.rejected)
    /\ op' = "into_err64"
    /\ pc' = "diagnosed"
    /\ UNCHANGED <<made, ret, id, upcase, before, buffer, text, input>>

\* VolumeId32::from_bytes(b)
FromBytes32 ==
    /\ pc = "start"
    /\ \E b \in [1..4 -> ByteSample32] :
        /\ id' = [width |-> 4, bytes |-> from_bytes(b)]
        /\ made' = [fn |-> "from_bytes32", arg |-> b]
    /\ op' = "from_bytes32"
    /\ pc' = "have_id"
    /\ UNCHANGED <<ret, upcase, before, buffer, text, input, result>>

\* VolumeId64::from_bytes(b)
FromBytes64 ==
    /\ pc = "start"
    /\ \E b \in [1..8 -> ByteSample64] :
        /\ id' = [width |-> 8, bytes |-> from_bytes(b)]
        /\ made' = [fn |-> "from_bytes64", arg |-> b]
    /\ op' = "from_bytes64"
    /\ pc' = "have_id"
    /\ UNCHANGED <<ret, upcase, before, buffer, text, input, result>>

\* a constructor that cannot fail is called with `arg` and returns the
\* identifier with the stored bytes `bytes`
Construct(name, width, arg, bytes, next) ==
    /\ pc = "start"
    /\ id' = [width |-> width, bytes |-> bytes]
    /\ made' = [fn |-> name, arg |-> arg]
    /\ op' = name
    /\ pc' = next
    /\ UNCHANGED <<ret, upcase, before, buffer, text, input, result>>

Nil32 == Construct("nil32", 4, <<>>, nil32, "have_id")

Nil64 == Construct("nil64", 8, <<>>, nil64, "have_id")

Max32 == Construct("max32", 4, <<>>, max32, "have_id")

Max64 == Construct("max64", 8, <<>>, max64, "have_id")

FromBytesBe32 ==
    /\ pc = "start"
    /\ \E b \in [1..4 -> BeSample32] :
        Construct("from_bytes_be32", 4, b, from_bytes_be32(b), "made")

FromBytesBe64 ==
    /\ pc = "start"
    /\ \E b \in [1..8 -> BeSample64] :
        Construct("from_bytes_be64", 8, b, from_bytes_be64(b), "made")

FromU32 ==
    /\ pc = "start"
    /\ \E v \in U32Sample : Construct("from_u32", 4, v, from_u32(v), "made")

FromU32Be ==
    /\ pc = "start"
    /\ \E v \in U32Sample : Construct("from_u32_be", 4, v, from_u32_be(v), "made")

FromU64 ==
    /\ pc = "start"
    /\ \E v \in U64Sample : Construct("from_u64", 8, v, from_u64(v), "made")

FromU64Be ==
    /\ pc = "start"
    /\ \E v \in U64Sample : Construct("from_u64_be", 8, v, from_u64_be(v), "made")

FromU16Pair ==
    /\ pc = "start"
    /\ \E hi, lo \in U16Sample :
        Construct("from_u16_pair", 4, <<hi, lo>>, from_u16_pair(hi, lo), "have_id")

FromU16PairBe ==
    /\ pc = "start"
    /\ \E hi, lo \in U16Sample :
        Construct("from_u16_pair_be", 4, <<hi, lo>>, from_u16_pair_be(hi, lo), "have_id")

FromU32Pair ==
    /\ pc = "start"
    /\ \E hi, lo \in U32PairSample :
        Construct("from_u32_pair", 8, <<hi, lo>>, from_u32_pair(hi, lo), "have_id")

FromU32PairBe ==
    /\ pc = "start"
    /\ \E hi, lo \in U32PairSample :
        Construct("from_u32_pair_be", 8, <<hi, lo>>, from_u32_pair_be(hi, lo), "have_id")

\* from_slice / from_slice_be is called with the slice b and returns r
FromSlice(name, width, b, r) ==
    /\ pc = "start"
    /\ result' = r
    /\ id' = IF r.tag = "Ok" THEN [width |-> width, bytes |-> r.bytes] ELSE NoId
    /\ made' = [fn |-> name, arg |-> b]
    /\ op' = name
    /\ pc' = IF r.tag = "Ok" THEN "made" ELSE "failed"
    /\ UNCHANGED <<ret, upcase, before, buffer, text, input>>

FromSlice32 ==
    /\ pc = "start"
    /\ \E b \in Slices(BeSample32, MaxSlice32) :
        FromSlice("from_slice32", 4, b, from_slice32(b))

FromSliceBe32 ==
    /\ pc = "start"
    /\ \E b \in Slices(BeSample32, MaxSlice32) :
        FromSlice("from_slice_be32", 4, b, from_slice_be32(b))

FromSlice64 ==
    /\ pc = "start"
    /\ \E b \in Slices(BeSample64, MaxSlice64) :
        FromSlice("from_slice64", 8, b, from_slice64(b))

FromSliceBe64 ==
    /\ pc = "start"
    /\ \E b \in Slices(BeSample64, MaxSlice64) :
        FromSlice("from_slice_be64", 8, b, from_slice_be64(b))

\* an accessor of the identifier is called and returns `value`
Access(name, width, value) ==
    /\ pc \in {"have_id", "made"}
    /\ id.width = width
    /\ ret' = value
    /\ op' = name
    /\ pc' = "accessed"
    /\ UNCHANGED <<made, id, upcase, before, buffer, text, input, result>>

AsBytes32 == Access("as_bytes32", 4, as_bytes(id.bytes))

AsBytes64 == Access("as_bytes64", 8, as_bytes(id.bytes))

IntoBytes32 == Access("into_bytes32", 4, into_bytes(id.bytes))

IntoBytes64 == Access("into_bytes64", 8, into_bytes(id.bytes))

ToBytesBe32 == Access("to_bytes_be32", 4, to_bytes_be32(id.bytes))

ToBytesBe64 == Access("to_bytes_be64", 8, to_bytes_be64(id.bytes))

AsU32 == Access("as_u32", 4, as_u32(id.bytes))

AsU32Be == Access("as_u32_be", 4, as_u32_be(id.bytes))

AsU64 == Access("as_u64", 8, as_u64(id.bytes))

AsU64Be == Access("as_u64_be", 8, as_u64_be(id.bytes))

IsNil32 == Access("is_nil32", 4, is_nil32(id.bytes))

IsNil64 == Access("is_nil64", 8, is_nil64(id.bytes))

IsMax32 == Access("is_max32", 4, is_max32(id.bytes))

IsMax64 == Access("is_max64", 8, is_max64(id.bytes))

\* the Error a 32-bit entry point returned is rendered with Display
DisplayError32 ==
    /\ pc \in {"parsed", "failed"}
    /\ op \in {"parse32", "from_str32", "from_slice32"}
    /\ result.tag = "Error"
    /\ ret' = Error_fmt32(result.err)
    /\ pc' = "rendered"
    /\ UNCHANGED <<made, op, id, upcase, before, buffer, text, input, result>>

\* the identifier is compared with another of its width
Eq32 ==
    /\ pc = "have_id"
    /\ \E o \in Others32 :
        Access("eq32", 4, [other |-> o, value |-> PartialEq_eq(id.bytes, o)])

Eq64 ==
    /\ pc = "have_id"
    /\ \E o \in Others64 :
        Access("eq64", 8, [other |-> o, value |-> PartialEq_eq(id.bytes, o)])

Lt32 ==
    /\ pc = "have_id"
    /\ \E o \in Others32 :
        Access("lt32", 4, [other |-> o, value |-> PartialOrd_lt(id.bytes, o)])

Lt64 ==
    /\ pc = "have_id"
    /\ \E o \in Others64 :
        Access("lt64", 8, [other |-> o, value |-> PartialOrd_lt(id.bytes, o)])

Cmp32 ==
    /\ pc = "have_id"
    /\ \E o \in Others32 :
        Access("cmp32", 4, [other |-> o, value |-> Ord_cmp(id.bytes, o)])

Cmp64 ==
    /\ pc = "have_id"
    /\ \E o \in Others64 :
        Access("cmp64", 8, [other |-> o, value |-> Ord_cmp(id.bytes, o)])

\* x.to_string() of the identifier
Show(name, width) ==
    /\ pc \in {"have_id", "made"}
    /\ id.width = width
    /\ text' = to_string(id.bytes)
    /\ op' = name
    /\ pc' = "shown"
    /\ UNCHANGED <<made, ret, id, upcase, before, buffer, input, result>>

ToString32 == Show("to_string32", 4)

ToString64 == Show("to_string64", 8)

\* the identifier's own string is handed to parse
ParseShown32 ==
    /\ pc = "shown"
    /\ id.width = 4
    /\ input' = text
    /\ result' = parse32(text)
    /\ pc' = "parsed"
    /\ UNCHANGED <<made, ret, op, id, upcase, before, buffer, text>>

ParseShown64 ==
    /\ pc = "shown"
    /\ id.width = 8
    /\ input' = text
    /\ result' = parse64(text)
    /\ pc' = "parsed"
    /\ UNCHANGED <<made, ret, op, id, upcase, before, buffer, text>>

\* encode_lower / encode_upper of a formatter view:
\* Self::_encode(self.0.as_bytes(), buffer, upper)
encode(name, src, buf, up) ==
    IF name = "SimpleId32" THEN SimpleId32_encode(src, buf, up)
    ELSE IF name = "HyphenatedId32" THEN HyphenatedId32_encode(src, buf, up)
    ELSE SimpleId64_encode(src, buf, up)

\* the caller hands a buffer of some length to a formatter of the identifier
Encode(name, width, length, up) ==
    /\ pc = "have_id"
    /\ id.width = width
    /\ \E n \in BufLens(length), fill \in FillSample :
        LET buf == [k \in 1..n |-> fill]
            e   == encode(name, id.bytes, buf, up)
        IN  /\ before' = buf
            /\ buffer' = e.buffer
            /\ text' = e.text
            /\ result' = IF e.panic THEN Panicked ELSE NoResult
    /\ upcase' = up
    /\ op' = name
    /\ pc' = "encoded"
    /\ UNCHANGED <<made, ret, id, input>>

SimpleId32_encode_lower == Encode("SimpleId32", 4, SimpleId32_LENGTH, FALSE)

SimpleId32_encode_upper == Encode("SimpleId32", 4, SimpleId32_LENGTH, TRUE)

HyphenatedId32_encode_lower == Encode("HyphenatedId32", 4, HyphenatedId32_LENGTH, FALSE)

HyphenatedId32_encode_upper == Encode("HyphenatedId32", 4, HyphenatedId32_LENGTH, TRUE)

SimpleId64_encode_lower == Encode("SimpleId64", 8, SimpleId64_LENGTH, FALSE)

SimpleId64_encode_upper == Encode("SimpleId64", 8, SimpleId64_LENGTH, TRUE)

\* the text a formatter returned is parsed back
ParseEncoded32 ==
    /\ pc = "encoded"
    /\ id.width = 4
    /\ result.tag # "Panic"
    /\ input' = text
    /\ result' = try_parse_ascii32(text)
    /\ pc' = "parsed"
    /\ UNCHANGED <<made, ret, op, id, upcase, before, buffer, text>>

ParseEncoded64 ==
    /\ pc = "encoded"
    /\ id.width = 8
    /\ result.tag # "Panic"
    /\ input' = text
    /\ result' = try_parse_ascii64(text)
    /\ pc' = "parsed"
    /\ UNCHANGED <<made, ret, op, id, upcase, before, buffer, text>>

Next ==
    \/ TypeHex
    \/ TypeOdd
    \/ TryParseAscii32
    \/ TryParseAscii64
    \/ TryParseAscii32Bytes
    \/ RootTryParseAscii
    \/ TryParse32
    \/ TryParse64
    \/ Parse32
    \/ Parse64
    \/ FromStr32
    \/ FromStr64
    \/ TryFromStr32
    \/ TryFromStr64
    \/ IntoErr32
    \/ IntoErr64
    \/ FromBytes32
    \/ FromBytes64
    \/ Nil32
    \/ Nil64
    \/ Max32
    \/ Max64
    \/ FromBytesBe32
    \/ FromBytesBe64
    \/ FromSlice32
    \/ FromSliceBe32
    \/ FromSlice64
    \/ FromSliceBe64
    \/ FromU32
    \/ FromU32Be
    \/ FromU64
    \/ FromU64Be
    \/ FromU16Pair
    \/ FromU16PairBe
    \/ FromU32Pair
    \/ FromU32PairBe
    \/ AsBytes32
    \/ AsBytes64
    \/ IntoBytes32
    \/ IntoBytes64
    \/ ToBytesBe32
    \/ ToBytesBe64
    \/ AsU32
    \/ AsU32Be
    \/ AsU64
    \/ AsU64Be
    \/ IsNil32
    \/ IsNil64
    \/ IsMax32
    \/ IsMax64
    \/ DisplayError32
    \/ Eq32
    \/ Eq64
    \/ Lt32
    \/ Lt64
    \/ Cmp32
    \/ Cmp64
    \/ ToString32
    \/ ToString64
    \/ ParseShown32
    \/ ParseShown64
    \/ SimpleId32_encode_lower
    \/ SimpleId32_encode_upper
    \/ HyphenatedId32_encode_lower
    \/ HyphenatedId32_encode_upper
    \/ SimpleId64_encode_lower
    \/ SimpleId64_encode_upper
    \/ ParseEncoded32
    \/ ParseEncoded64

Spec == Init /\ [][Next]_vars

----------------------------------------------------------------------------
(* Properties *)

\* the ASCII hex digit of a nibble v in the asked case
HexChar(v, up) == IF v < 10 THEN 48 + v ELSE (IF up THEN 55 ELSE 87) + v

Encoded(name) == op = name /\ pc = "encoded"

\* the text returned by formatter `name` has been parsed back
ParsedBack(name) == op = name /\ pc = "parsed" /\ id # NoId

\* C1: 32-bit Simple round trip.  For every 4-byte array b and both cases,
\* SimpleId32::encode_lower / encode_upper of from_bytes(b) into a buffer of
\* length >= 8 returns an 8-character string, and try_parse_ascii of that
\* string returns the identifier whose bytes are b.
C1_SimpleRoundTrip32 ==
    /\ (Encoded("SimpleId32") /\ Len(before) >= SimpleId32_LENGTH)
            => (result.tag # "Panic" /\ Len(text) = 8)
    /\ ParsedBack("SimpleId32") => result = OkId(id.bytes)

\* C2: 32-bit Hyphenated round trip.  For every 4-byte array b and both
\* cases, HyphenatedId32::encode_lower / encode_upper of from_bytes(b) into a
\* buffer of length >= 9 returns a 9-character string, and try_parse_ascii
\* of that string returns the identifier whose bytes are b.
C2_HyphenatedRoundTrip32 ==
    /\ (Encoded("HyphenatedId32") /\ Len(before) >= HyphenatedId32_LENGTH)
            => (result.tag # "Panic" /\ Len(text) = 9)
    /\ ParsedBack("HyphenatedId32") => result = OkId(id.bytes)

\* an identifier with letters in its digits was formatted in upper case into
\* a longer buffer and the text parsed back to it
C2_Witness ==
    /\ ParsedBack("HyphenatedId32")
    /\ upcase
    /\ Len(before) = HyphenatedId32_LENGTH + 1
    /\ id.bytes = <<109, 169, 15, 255>>
    /\ text = <<54, 68, 65, 57, 45, 48, 70, 70, 70>>
    /\ result.tag = "Ok"

\* C3: 64-bit Simple round trip.  For every 8-byte array b and both cases,
\* SimpleId64::encode_lower / encode_upper of from_bytes(b) into a buffer of
\* length >= 16 returns a 16-character string whose characters 2k and 2k+1
\* are the high and the low nibble of byte k, and try_parse_ascii of that
\* string returns the identifier whose bytes are b.
C3_SimpleRoundTrip64 ==
    /\ (Encoded("SimpleId64") /\ Len(before) >= SimpleId64_LENGTH)
            => /\ result.tag # "Panic"
               /\ Len(text) = 16
               /\ \A k \in 0..7 :
                    /\ At(text, 2 * k) = HexChar(At(id.bytes, k) \div 16, upcase)
                    /\ At(text, 2 * k + 1) = HexChar(At(id.bytes, k) % 16, upcase)
    /\ ParsedBack("SimpleId64") => result = OkId(id.bytes)

\* a 64-bit identifier was formatted in lower case and the text parsed back
C3_Witness ==
    /\ ParsedBack("SimpleId64")
    /\ ~upcase
    /\ id.bytes = <<109, 240, 240, 109, 109, 109, 240, 109>>
    /\ text = <<54, 100, 102, 48, 102, 48, 54, 100, 54, 100, 54, 100, 102, 48, 54, 100>>
    /\ result.tag = "Ok"

\* the ASCII hex digits, as a set of bytes
HexDigits == (48..57) \cup (65..70) \cup (97..102)

AllHex(s) == \A k \in 1..Len(s) : s[k] \in HexDigits

\* the value of a hex digit
HexVal(c) == IF c <= 57 THEN c - 48 ELSE IF c <= 70 THEN c - 55 ELSE c - 87

\* the two layouts the 32-bit parser takes
Accept32(s) ==
    \/ Len(s) = 8 /\ AllHex(s)
    \/ /\ Len(s) = 9
       /\ At(s, 4) = HYPHEN
       /\ \A k \in (0..8) \ {4} : At(s, k) \in HexDigits

\* the one layout the 64-bit parser takes
Accept64(s) == Len(s) = 16 /\ AllHex(s)

\* the entry points of either width that return the unclassified rejection
FastOps32 == {"try_parse_ascii32", "try_parse32", "SimpleId32", "HyphenatedId32"}

FastOps64 == {"try_parse_ascii64", "try_parse64", "SimpleId64"}

Ops32 == FastOps32 \cup {"parse32"}

Ops64 == FastOps64 \cup {"parse64"}

\* a parser of that width has returned on `input`
Parsed32 == pc = "parsed" /\ op \in Ops32

Parsed64 == pc = "parsed" /\ op \in Ops64

\* C4: acceptance set of the 32-bit parser.  VolumeId32::try_parse_ascii(s)
\* succeeds if and only if s is 8 hex digits, or 9 bytes with '-' at index 4
\* and hex digits elsewhere; every other input, of whatever length, is
\* rejected.
C4_Acceptance32 ==
    Parsed32 =>
        /\ result.tag \in {"Ok", "Invalid", "Error"}
        /\ (result.tag = "Ok") <=> Accept32(input)

\* a typed 9-byte input with the hyphen at index 4 was accepted
C4_Witness ==
    /\ op = "try_parse_ascii32"
    /\ pc = "parsed"
    /\ input = <<54, 100, 68, 99, 45, 54, 97, 57, 66>>
    /\ result.tag = "Ok"

\* C5: acceptance set of the 64-bit parser.  VolumeId64::try_parse_ascii(s)
\* succeeds if and only if s is 16 hex digits; no input that contains a
\* hyphen is accepted.
C5_Acceptance64 ==
    Parsed64 =>
        /\ result.tag \in {"Ok", "Invalid", "Error"}
        /\ (result.tag = "Ok") <=> Accept64(input)
        /\ (\E k \in 1..Len(input) : input[k] = HYPHEN) => result.tag # "Ok"

\* a 17-byte input, 8 hex digits on either side of a hyphen, was rejected
C5_Witness ==
    /\ op = "try_parse_ascii64"
    /\ pc = "parsed"
    /\ Len(input) = 17
    /\ At(input, 8) = HYPHEN
    /\ \A k \in (0..16) \ {8} : At(input, k) \in HexDigits
    /\ result.tag = "Invalid"

NotHyphen(c) == c # HYPHEN

\* "xxxxyyyy" for "xxxx-yyyy" and the other way round
Twin(s) ==
    IF Len(s) = 8 THEN SubSeq(s, 1, 4) \o <<HYPHEN>> \o SubSeq(s, 5, 8)
    ELSE SubSeq(s, 1, 4) \o SubSeq(s, 6, 9)

\* C6: decoded value is as written.  For every accepted input, with d0, d1,
\* ... its hex digits in textual order (the hyphen removed), stored byte k is
\* 16 * value(d(2k)) + value(d(2k+1)); hence "xxxxyyyy" and "xxxx-yyyy" parse
\* to the identical VolumeId32.
C6_AsWritten ==
    ((Parsed32 \/ Parsed64) /\ result.tag = "Ok") =>
        LET d == SelectSeq(input, NotHyphen)
            W == IF op \in Ops32 THEN 4 ELSE 8
        IN  /\ Len(result.bytes) = W
            /\ Len(d) = 2 * W
            /\ \A k \in 0..(W - 1) :
                    At(result.bytes, k) = 16 * HexVal(At(d, 2 * k)) + HexVal(At(d, 2 * k + 1))
            /\ Parsed32 => try_parse_ascii32(Twin(input)) = result

\* the typed text "6dDc-6a9B" was decoded to the bytes 6d dc 6a 9b
C6_Witness ==
    /\ op = "try_parse32"
    /\ pc = "parsed"
    /\ input = <<54, 100, 68, 99, 45, 54, 97, 57, 66>>
    /\ result = OkId(<<109, 220, 106, 155>>)

\* a hex letter in the other case, any other byte unchanged
FlipCase(c) ==
    IF 65 <= c /\ c <= 70 THEN c + 32
    ELSE IF 97 <= c /\ c <= 102 THEN c - 32
    ELSE c

ToUpperHex(s) == [k \in 1..Len(s) |-> IF 97 <= s[k] /\ s[k] <= 102 THEN s[k] - 32 ELSE s[k]]

ToLowerHex(s) == [k \in 1..Len(s) |-> IF 65 <= s[k] /\ s[k] <= 70 THEN s[k] + 32 ELSE s[k]]

\* s with the case of the hex letters at the positions in P exchanged
FlipAt(s, P) == [k \in 1..Len(s) |-> IF k \in P THEN FlipCase(s[k]) ELSE s[k]]

\* texts that differ from s only in the case of hex letters: all upper, all
\* lower, every letter flipped, and one letter flipped at a time
CaseVariants(s) ==
    {ToUpperHex(s), ToLowerHex(s), FlipAt(s, 1..Len(s))}
        \cup {FlipAt(s, {p}) : p \in 1..Len(s)}

\* C7: case-insensitive input.  Two inputs of the same layout that differ
\* only in the letter case of their hex digits are both accepted or both
\* rejected by the parser, and when accepted yield the same identifier
\* (32-bit simple, 32-bit hyphenated and 64-bit simple).
C7_CaseInsensitive ==
    /\ Parsed32 =>
            \A v \in CaseVariants(input) :
                /\ (try_parse_ascii32(v).tag = "Ok") <=> (result.tag = "Ok")
                /\ try_parse_ascii32(v).bytes = result.bytes
    /\ Parsed64 =>
            \A v \in CaseVariants(input) :
                /\ (try_parse_ascii64(v).tag = "Ok") <=> (result.tag = "Ok")
                /\ try_parse_ascii64(v).bytes = result.bytes

\* the mixed-case text "6dDc-6a9B" was accepted, and so is "6DDC-6A9B"
C7_Witness ==
    /\ op = "try_parse_ascii32"
    /\ pc = "parsed"
    /\ input = <<54, 100, 68, 99, 45, 54, 97, 57, 66>>
    /\ result.tag = "Ok"
    /\ <<54, 68, 68, 67, 45, 54, 65, 57, 66>> \in CaseVariants(input)

\* C8: unclassified rejection.  On every rejection path of try_parse and
\* try_parse_ascii (wrong length, no hyphen at offset 4, a byte that is not a
\* hex digit) the InvalidVolumeId32 / InvalidVolumeId64 returned carries the
\* whole original input and no classification; the fast parser never builds
\* an Error.
C8_UnclassifiedRejection ==
    (pc = "parsed" /\ op \in FastOps32 \cup FastOps64) =>
        /\ result.tag \in {"Ok", "Invalid"}
        /\ result.tag = "Invalid" =>
                /\ result.rejected = input
                /\ result.err = NoErr
                /\ result.bytes = <<>>

\* an 8-byte input whose third pair holds a byte that is not a hex digit was
\* rejected by try_parse_ascii
C8_Witness ==
    /\ op = "try_parse_ascii32"
    /\ pc = "parsed"
    /\ input = <<54, 100, 68, 99, 70, 103, 97, 57>>
    /\ result.tag = "Invalid"

\* characters that the 32-bit diagnostics take as part of an identifier
HexOrHyphen == HexDigits \cup {HYPHEN}

\* C9: invalid-character diagnostic.  For every UTF-8 input to
\* VolumeId32::parse with a character that is neither a hex digit nor '-',
\* the result is InvalidCharacter with the first such character and
\* position 1 + the number of characters before it, whatever the length of
\* the input and the number of hyphens in it.
C9_InvalidCharacter ==
    (pc = "parsed" /\ op = "parse32") =>
        LET chars == char_indices(input).chars
            bad   == {k \in 1..Len(chars) : chars[k].character \notin HexOrHyphen}
        IN  bad # {} =>
                LET k == CHOOSE i \in bad : \A j \in bad : i <= j
                IN  result = Failed(ParseChar(chars[k].character, k))

\* "6d-" followed by U+00E9: the hyphen is misplaced and the text too short,
\* and the diagnostic names the character U+00E9 at position 4
C9_Witness ==
    /\ op = "parse32"
    /\ pc = "parsed"
    /\ input = <<54, 100, 45, 195, 169>>
    /\ result = Failed(ParseChar(233, 4))

\* C10: simple-length diagnostic.  For every input to VolumeId32::parse or
\* VolumeId64::parse that consists of hex digits only and is rejected, the
\* empty string included, the result is SimpleLengthError with the length of
\* the input.
C10_SimpleLength ==
    (pc = "parsed" /\ op \in {"parse32", "parse64"} /\ AllHex(input)
        /\ result.tag # "Ok")
            => result = Failed(ParseSimpleLength(Len(input)))

\* nine hex digits were handed to VolumeId32::parse
C10_Witness ==
    /\ op = "parse32"
    /\ pc = "parsed"
    /\ Len(input) = 9
    /\ AllHex(input)
    /\ result = Failed(ParseSimpleLength(9))

\* into_err of the 32-bit parser has classified `input`, called by parse or
\* by the caller on the rejection of a fast parser
Diagnosed32 ==
    \/ pc = "parsed" /\ op = "parse32"
    \/ pc = "diagnosed" /\ op = "into_err32"

Diagnosed64 ==
    \/ pc = "parsed" /\ op = "parse64"
    \/ pc = "diagnosed" /\ op = "into_err64"

\* hex digits and hyphens only
AllHexOrHyphen(s) == \A k \in 1..Len(s) : s[k] \in HexOrHyphen

\* 0-based index of the first hyphen of s
FirstHyphen(s) == CHOOSE h \in 0..(Len(s) - 1) : At(s, h) = HYPHEN /\ \A j \in 0..(h - 1) : At(s, j) # HYPHEN

\* C11: group-length diagnostic.  For every rejected input to
\* VolumeId32::parse made only of hex digits and exactly one '-': a hyphen at
\* the 0-based index h other than 4 gives GroupLengthError with group 0,
\* length h and position 1; a hyphen at index 4 gives GroupLengthError with
\* group 1, length total_length - 5 and position 6.
C11_GroupLength ==
    (Diagnosed32 /\ AllHexOrHyphen(input) /\ NHyphen(input) = 1 /\ result.tag # "Ok") =>
        LET h == FirstHyphen(input) IN
        IF h # 4 THEN result = Failed(ParseGroupLength(0, h, 1))
        ELSE result = Failed(ParseGroupLength(1, Len(input) - 5, 6))

\* "6dD-F6a9B": nine characters with the hyphen at index 3
C11_Witness ==
    /\ op = "parse32"
    /\ pc = "parsed"
    /\ input = <<54, 100, 68, 45, 70, 54, 97, 57, 66>>
    /\ result = Failed(ParseGroupLength(0, 3, 1))

\* C12: group-count diagnostic.  For every input to VolumeId32::parse made
\* only of hex digits and n >= 2 hyphens, wherever the hyphens are and
\* whatever the length (8 and 9 included), the result is GroupCountError
\* with count n + 1.
C12_GroupCount ==
    (Diagnosed32 /\ AllHexOrHyphen(input) /\ NHyphen(input) >= 2) =>
        result = Failed(ParseGroupCount(NHyphen(input) + 1))

\* nine characters, three of them hyphens and one of those at index 4
C12_Witness ==
    /\ op = "parse32"
    /\ pc = "parsed"
    /\ Len(input) = 9
    /\ AllHexOrHyphen(input)
    /\ NHyphen(input) = 3
    /\ At(input, 4) = HYPHEN
    /\ result = Failed(ParseGroupCount(4))

\* a byte that starts no UTF-8 sequence, or a two-byte lead without its
\* continuation byte
HasStrayByte(s) ==
    \E k \in 1..Len(s) :
        \/ s[k] >= 248
        \/ /\ 194 <= s[k] /\ s[k] <= 223
           /\ (k = Len(s) \/ s[k + 1] < 128 \/ s[k + 1] > 191)

\* C13: the encoding is checked first.  No byte sequence that is not UTF-8
\* is accepted by try_parse_ascii of either width, and into_err on its
\* rejection yields InvalidEncoding whatever other defects the input has
\* (invalid ASCII characters before the malformed bytes, wrong length,
\* hyphens).
C13_EncodingFirst ==
    (HasStrayByte(input) \/ ~from_utf8_ok(input)) =>
        /\ (pc = "parsed" /\ op \in {"try_parse_ascii32", "try_parse_ascii64"})
                => result.tag = "Invalid" /\ result.rejected = input
        /\ pc = "diagnosed" => result = Failed(ParseInvalidUTF8)

\* "6g" followed by the lone lead byte 0xC3: an invalid character comes
\* before the malformed byte and the length fits no layout
C13_Witness ==
    /\ op = "into_err32"
    /\ pc = "diagnosed"
    /\ input = <<54, 103, 195>>
    /\ result = Failed(ParseInvalidUTF8)

\* the kinds of error into_err builds
DiagnosticKinds ==
    {"ParseChar", "ParseSimpleLength", "ParseGroupCount", "ParseGroupLength",
     "ParseInvalidUTF8"}

\* C14: totality.  For every byte sequence, try_parse_ascii followed on
\* rejection by into_err returns without a panic: no index is out of
\* bounds and neither hyphen_index - block_start nor total_length - 5 goes
\* below zero; the outcome is an identifier or exactly one error kind.
C14_Totality ==
    /\ (pc = "parsed" /\ op \in {"try_parse_ascii32", "try_parse_ascii64",
                                 "try_parse32", "try_parse64"})
            => \/ result.tag = "Ok" /\ result.err = NoErr
               \/ result.tag = "Invalid"
    /\ (Diagnosed32 \/ Diagnosed64) =>
            \/ result.tag = "Ok" /\ result.err = NoErr
            \/ /\ result.tag = "Error"
               /\ result.err.kind \in DiagnosticKinds
               /\ result.bytes = <<>>
    /\ (Diagnosed32 /\ result.tag = "Error" /\ result.err.kind = "ParseGroupLength")
            => result.err.len \in 0..Len(input)

\* "6dDc-": the hyphen is at index 4 and nothing follows, so that
\* total_length - 5 is zero
C14_Witness ==
    /\ op = "into_err32"
    /\ pc = "diagnosed"
    /\ input = <<54, 100, 68, 99, 45>>
    /\ result = Failed(ParseGroupLength(1, 0, 6))

\* the entry points that take text and return Result<_, Error>
TextOps32 == {"parse32", "from_str32", "try_from_str32"}

TextOps64 == {"parse64", "from_str64", "try_from_str64"}

\* C15: error taxonomy of the text entry points.  Every Err returned by
\* parse, FromStr::from_str or TryFrom<&str> of VolumeId32 / VolumeId64 is
\* exactly one of InvalidCharacter, SimpleLengthError, GroupCountError,
\* GroupLengthError and InvalidEncoding, carrying the specific defect: the
\* classification parse returns for the same input.
C15_ErrorTaxonomy ==
    (pc = "parsed" /\ op \in TextOps32 \cup TextOps64 /\ result.tag = "Error") =>
        /\ result.err.kind \in DiagnosticKinds
        /\ op \in TextOps32 => result = parse32(input)
        /\ op \in TextOps64 => result = parse64(input)

\* s in the opposite order
Reversed(s) == [k \in 1..Len(s) |-> s[Len(s) + 1 - k]]

\* the constructors that take a slice
SliceFns32 == {"from_slice32", "from_slice_be32"}

SliceFns64 == {"from_slice64", "from_slice_be64"}

\* C16: from_slice and from_slice_be.  For every byte slice s and W = 4
\* (VolumeId32) or 8 (VolumeId64), from_slice(s) returns
\* Err(ByteLengthError { len: len(s) }) if and only if len(s) != W; when
\* len(s) = W, from_slice(s) = from_bytes(s) and from_slice_be(s) =
\* from_bytes_be(s), the identifier with the bytes of s reversed.
C16_FromSlice ==
    (made.fn \in SliceFns32 \cup SliceFns64 /\ op = made.fn) =>
        LET s  == made.arg
            W  == IF made.fn \in SliceFns32 THEN 4 ELSE 8
            be == made.fn \in {"from_slice_be32", "from_slice_be64"}
        IN  /\ (result.tag = "Error") <=> (Len(s) # W)
            /\ Len(s) # W =>
                    /\ result = Failed(ParseByteLength(Len(s)))
                    /\ id = NoId
            /\ Len(s) = W =>
                    /\ result = OkId(IF ~be THEN from_bytes(s)
                                     ELSE IF W = 4 THEN from_bytes_be32(s)
                                     ELSE from_bytes_be64(s))
                    /\ result.bytes = IF be THEN Reversed(s) ELSE s
                    /\ id = [width |-> W, bytes |-> result.bytes]

\* from_slice_be of the four bytes 00 a1 ff ff stored them as ff ff a1 00
C16_Witness ==
    /\ pc = "made"
    /\ made = [fn |-> "from_slice_be32", arg |-> <<0, 161, 255, 255>>]
    /\ result = OkId(<<255, 255, 161, 0>>)
    /\ id.bytes = <<255, 255, 161, 0>>

\* C17: byte accessors.  from_bytes(b).into_bytes() = b and as_bytes() = b;
\* from_bytes(b).to_bytes_be() = reverse(b); from_bytes_be(b).into_bytes() =
\* reverse(b); from_bytes_be(b).to_bytes_be() = b, for both widths.
C17_ByteAccessors ==
    pc = "accessed" =>
        /\ made.fn \in {"from_bytes32", "from_bytes64"} =>
            /\ op \in {"into_bytes32", "into_bytes64", "as_bytes32", "as_bytes64"}
                    => ret = made.arg
            /\ op \in {"to_bytes_be32", "to_bytes_be64"} => ret = Reversed(made.arg)
        /\ made.fn \in {"from_bytes_be32", "from_bytes_be64"} =>
            /\ op \in {"into_bytes32", "into_bytes64", "as_bytes32", "as_bytes64"}
                    => ret = Reversed(made.arg)
            /\ op \in {"to_bytes_be32", "to_bytes_be64"} => ret = made.arg

\* to_bytes_be of from_bytes_be(00 a1 ff ff) returned 00 a1 ff ff
C17_Witness ==
    /\ pc = "accessed"
    /\ op = "to_bytes_be32"
    /\ made = [fn |-> "from_bytes_be32", arg |-> <<0, 161, 255, 255>>]
    /\ id.bytes = <<255, 255, 161, 0>>
    /\ ret = <<0, 161, 255, 255>>

\* uN::swap_bytes: the bytes of the integer in the opposite order
SwapBytes(v) ==
    [k \in 1..Len(v) |-> 256 * (v[Len(v) + 1 - k] % 256) + (v[Len(v) + 1 - k] \div 256)]

\* C18: integer round trips.  from_u32(v).as_u32() = v and
\* from_u32_be(v).as_u32_be() = v; the mixed directions give v with its
\* bytes reversed; the same holds for from_u64 / as_u64 / from_u64_be /
\* as_u64_be.
C18_IntegerRoundTrip ==
    pc = "accessed" =>
        /\ made.fn \in {"from_u32", "from_u64"} =>
            /\ op \in {"as_u32", "as_u64"} => ret = made.arg
            /\ op \in {"as_u32_be", "as_u64_be"} => ret = SwapBytes(made.arg)
        /\ made.fn \in {"from_u32_be", "from_u64_be"} =>
            /\ op \in {"as_u32_be", "as_u64_be"} => ret = made.arg
            /\ op \in {"as_u32", "as_u64"} => ret = SwapBytes(made.arg)

\* as_u32_be of from_u32(0xa1a2a3a4) returned 0xa4a3a2a1
C18_Witness ==
    /\ pc = "accessed"
    /\ op = "as_u32_be"
    /\ made = [fn |-> "from_u32", arg |-> <<41378, 41892>>]
    /\ ret = <<42147, 41633>>

\* the four bytes of two u16 values, the high value and the high byte first
PairBytes(hi, lo) == <<hi \div 256, hi % 256, lo \div 256, lo % 256>>

\* C19: pair constructors.  from_u16_pair(hi, lo) = from_u32(hi * 2^16 + lo)
\* and from_u16_pair_be(hi, lo) = from_u32_be(hi * 2^16 + lo): the stored
\* bytes of from_u16_pair_be are [hi >> 8, hi & 255, lo >> 8, lo & 255] and
\* those of from_u16_pair are that sequence reversed, so that hi = 0xa1a2,
\* lo = 0xa3a4 renders hyphenated as "a1a2-a3a4" and "a4a3-a2a1".  The same
\* holds for from_u32_pair / from_u32_pair_be with 2^32 on VolumeId64.
C19_PairConstructors ==
    /\ made.fn \in {"from_u16_pair", "from_u16_pair_be"} =>
        LET hi == made.arg[1]
            lo == made.arg[2]
        IN  /\ made.fn = "from_u16_pair" =>
                /\ id.bytes = from_u32(<<hi, lo>>)
                /\ id.bytes = Reversed(PairBytes(hi, lo))
            /\ made.fn = "from_u16_pair_be" =>
                /\ id.bytes = from_u32_be(<<hi, lo>>)
                /\ id.bytes = PairBytes(hi, lo)
            /\ (/\ pc = "encoded" /\ op = "HyphenatedId32" /\ ~upcase
                /\ result.tag # "Panic" /\ made.arg = <<41378, 41892>>) =>
                    text = IF made.fn = "from_u16_pair_be"
                           THEN <<97, 49, 97, 50, 45, 97, 51, 97, 52>>
                           ELSE <<97, 52, 97, 51, 45, 97, 50, 97, 49>>
    /\ made.fn \in {"from_u32_pair", "from_u32_pair_be"} =>
        LET hi == made.arg[1]
            lo == made.arg[2]
            be == PairBytes(hi[1], hi[2]) \o PairBytes(lo[1], lo[2])
        IN  /\ made.fn = "from_u32_pair" =>
                /\ id.bytes = from_u64(hi \o lo)
                /\ id.bytes = Reversed(be)
            /\ made.fn = "from_u32_pair_be" =>
                /\ id.bytes = from_u64_be(hi \o lo)
                /\ id.bytes = be

\* from_u16_pair(0xa1a2, 0xa3a4) was rendered hyphenated as "a4a3-a2a1"
C19_Witness ==
    /\ pc = "encoded"
    /\ op = "HyphenatedId32"
    /\ made = [fn |-> "from_u16_pair", arg |-> <<41378, 41892>>]
    /\ id.bytes = <<164, 163, 162, 161>>
    /\ text = <<97, 52, 97, 51, 45, 97, 50, 97, 49>>

\* every stored byte is v
AllBytes(bytes, v) == \A k \in 1..Len(bytes) : bytes[k] = v

\* C20: nil and max predicates.  is_nil() holds if and only if every stored
\* byte is 0x00, that is the identifier equals nil(); is_max() holds if and
\* only if every stored byte is 0xFF, that is the identifier equals max();
\* no identifier satisfies both.
C20_NilMax ==
    /\ (pc = "accessed" /\ op \in {"is_nil32", "is_nil64"}) =>
            /\ ret <=> AllBytes(id.bytes, 0)
            /\ ret <=> (id.bytes = IF id.width = 4 THEN nil32 ELSE nil64)
    /\ (pc = "accessed" /\ op \in {"is_max32", "is_max64"}) =>
            /\ ret <=> AllBytes(id.bytes, 255)
            /\ ret <=> (id.bytes = IF id.width = 4 THEN max32 ELSE max64)
    /\ id.width = 4 => ~(is_nil32(id.bytes) /\ is_max32(id.bytes))
    /\ id.width = 8 => ~(is_nil64(id.bytes) /\ is_max64(id.bytes))

\* is_nil of the identifier 00 00 ff 00, whose low half is zero, returned false
C20_Witness ==
    /\ pc = "accessed"
    /\ op = "is_nil32"
    /\ id.bytes = <<0, 0, 255, 0>>
    /\ ret = FALSE

\* LENGTH of the formatter called last
LengthOf(name) ==
    IF name = "SimpleId32" THEN SimpleId32_LENGTH
    ELSE IF name = "HyphenatedId32" THEN HyphenatedId32_LENGTH
    ELSE SimpleId64_LENGTH

Formatters == {"SimpleId32", "HyphenatedId32", "SimpleId64"}

\* C21: buffer-too-small precondition.  For every formatter (SimpleId32,
\* HyphenatedId32, SimpleId64), both cases and every identifier,
\* encode_lower / encode_upper with a buffer shorter than LENGTH (8, 9, 16;
\* LENGTH - 1 in particular) panics, and the length check precedes any
\* write: no byte of the buffer has been modified when the panic occurs.
C21_BufferTooSmall ==
    (pc = "encoded" /\ op \in Formatters /\ Len(before) < LengthOf(op)) =>
        /\ result.tag = "Panic"
        /\ buffer = before
        /\ text = <<>>

\* encode_upper of SimpleId64 into a buffer of 15 bytes '.' panicked and
\* left the 15 bytes as they were
C21_Witness ==
    /\ pc = "encoded"
    /\ op = "SimpleId64"
    /\ upcase
    /\ before = [k \in 1..15 |-> 46]
    /\ buffer = before
    /\ result.tag = "Panic"

\* C22: hyphenated layout.  For every VolumeId32 with stored bytes
\* [b0, b1, b2, b3] the HyphenatedId32 encoding is exactly 9 characters:
\* index 4 is '-', indices 0..3 are hi(b0), lo(b0), hi(b1), lo(b1) and
\* indices 5..8 are hi(b2), lo(b2), hi(b3), lo(b3), with the digits 0-9a-f
\* for encode_lower and 0-9A-F for encode_upper throughout the call.
C22_HyphenatedLayout ==
    (Encoded("HyphenatedId32") /\ Len(before) >= HyphenatedId32_LENGTH) =>
        LET b == id.bytes IN
        /\ result.tag # "Panic"
        /\ text = << HexChar(b[1] \div 16, upcase), HexChar(b[1] % 16, upcase),
                     HexChar(b[2] \div 16, upcase), HexChar(b[2] % 16, upcase),
                     HYPHEN,
                     HexChar(b[3] \div 16, upcase), HexChar(b[3] % 16, upcase),
                     HexChar(b[4] \div 16, upcase), HexChar(b[4] % 16, upcase) >>
        /\ \A k \in 1..Len(text) :
                text[k] \in (48..57) \cup {HYPHEN} \cup (IF upcase THEN 65..70 ELSE 97..102)

\* the bytes 6d a9 0f ff were rendered in lower case as "6da9-0fff"
C22_Witness ==
    /\ Encoded("HyphenatedId32")
    /\ ~upcase
    /\ id.bytes = <<109, 169, 15, 255>>
    /\ Len(before) = HyphenatedId32_LENGTH
    /\ text = <<54, 100, 97, 57, 45, 48, 102, 102, 102>>

\* the 2 * Len(bytes) lowercase hex characters of the bytes, in stored order
LowerHexOf(bytes) ==
    [k \in 1..(2 * Len(bytes)) |->
        HexChar(IF k % 2 = 1 THEN bytes[(k + 1) \div 2] \div 16
                ELSE bytes[k \div 2] % 16, FALSE)]

\* C23: own-string round trip.  For every VolumeId32 x, x.to_string()
\* (Display) is the 8 lowercase hex characters of the stored bytes in stored
\* order, and VolumeId32::parse of that string succeeds and returns x;
\* likewise with 16 characters for every VolumeId64.
C23_OwnString ==
    (op \in {"to_string32", "to_string64"} /\ pc \in {"shown", "parsed"}) =>
        /\ Len(text) = IF op = "to_string32" THEN 8 ELSE 16
        /\ text = LowerHexOf(id.bytes)
        /\ pc = "parsed" => input = text /\ result = OkId(id.bytes)

\* the identifier 00 0f a9 ff wrote "000fa9ff", which parsed back to it
C23_Witness ==
    /\ op = "to_string32"
    /\ pc = "parsed"
    /\ id.bytes = <<0, 15, 169, 255>>
    /\ text = <<48, 48, 48, 102, 97, 57, 102, 102>>
    /\ result = OkId(<<0, 15, 169, 255>>)

\* x comes before y in the order of the dictionary; for the parts of two
\* integers of one width, most significant first, this is x < y
Precedes(x, y) ==
    \E k \in 1..Len(x) :
        /\ \A j \in 1..(k - 1) : x[j] = y[j]
        /\ x[k] < y[k]

Comparisons == {"eq32", "eq64", "lt32", "lt64", "cmp32", "cmp64"}

\* C24: equality and ordering are byte-wise.  For identifiers a, b of one
\* width, a == b iff their stored byte arrays are equal, and a < b iff a's
\* array lexicographically precedes b's, equivalently as_u32_be(a) <
\* as_u32_be(b); the order is not the numeric order of as_u32: the bytes
\* [0, 0, 0, 15] sort before [15, 0, 0, 0] although as_u32 orders them the
\* other way.
C24_ByteWiseOrder ==
    (pc = "accessed" /\ op \in Comparisons) =>
        LET a == id.bytes
            b == ret.other
        IN  /\ op \in {"eq32", "eq64"} => (ret.value <=> (a = b))
            /\ op \in {"lt32", "lt64"} =>
                /\ ret.value <=> Precedes(a, b)
                /\ ret.value <=> Precedes(as_u32_be(a), as_u32_be(b))
                /\ (a = <<0, 0, 0, 15>> /\ b = <<15, 0, 0, 0>>) =>
                        ret.value /\ Precedes(as_u32(b), as_u32(a))
            /\ op \in {"cmp32", "cmp64"} =>
                /\ (ret.value = "Less") <=> Precedes(a, b)
                /\ (ret.value = "Equal") <=> (a = b)
                /\ (ret.value = "Greater") <=> Precedes(b, a)

\* 00 00 00 0f < 0f 00 00 00 held, while as_u32 of the first is the larger
C24_Witness ==
    /\ pc = "accessed"
    /\ op = "lt32"
    /\ id.bytes = <<0, 0, 0, 15>>
    /\ ret = [other |-> <<15, 0, 0, 0>>, value |-> TRUE]
    /\ Precedes(as_u32(ret.other), as_u32(id.bytes))

\* the value the claim gives HEX_TABLE at the byte c
DigitOrSentinel(c) == IF c \in HexDigits THEN HexVal(c) ELSE 255

\* C25: codec tables and sentinel.  For every byte c, HEX_TABLE[c] is the
\* digit value 0..15 when c is an ASCII hex digit and 0xFF otherwise, and
\* SHL4_TABLE[c] = (c * 16) mod 256; hence (HEX_TABLE[c1] | HEX_TABLE[c2])
\* == 0xFF iff at least one of c1, c2 is not a hex digit (the same for the
\* four-way OR of the hyphenated decoder), and for valid digits
\* SHL4_TABLE[h1] | h2 = 16 * h1 + h2.  Checked on the last bytes of every
\* input of 8 or 9 bytes handed to VolumeId32::try_parse_ascii.
C25_Tables ==
    (pc = "parsed" /\ op = "try_parse_ascii32" /\ Len(input) \in {8, 9}) =>
        LET n  == Len(input)
            c0 == input[n - 3]
            c1 == input[n - 2]
            c2 == input[n - 1]
            c3 == input[n]
            h2 == HEX_TABLE[c2]
            h3 == HEX_TABLE[c3]
        IN  /\ \A c \in {c0, c1, c2, c3} :
                /\ HEX_TABLE[c] = DigitOrSentinel(c)
                /\ SHL4_TABLE[c] = (c * 16) % 256
            /\ (BitOr(h2, h3) = 255) <=> ({c2, c3} \ HexDigits # {})
            /\ (BitOr(BitOr(BitOr(HEX_TABLE[c0], HEX_TABLE[c1]), h2), h3) = 255)
                    <=> ({c0, c1, c2, c3} \ HexDigits # {})
            /\ {c2, c3} \subseteq HexDigits =>
                    BitOr(SHL4_TABLE[h2], h3) = 16 * h2 + h3
            /\ result.tag = "Ok" => result.bytes[4] = 16 * HexVal(c2) + HexVal(c3)

\* "000000" followed by the byte 0xC8 and 'F' was rejected
C25_Witness ==
    /\ pc = "parsed"
    /\ op = "try_parse_ascii32"
    /\ input = <<48, 48, 48, 48, 48, 48, 200, 70>>
    /\ result = Invalid(input)

\* C26: the diagnostics never blame a value that is valid.  Whenever
\* VolumeId32::parse returns SimpleLengthError{len}, len != 8; whenever it
\* returns GroupLengthError{group, len, position}, group is 0 or 1,
\* len != 4 and position is 1 for group 0 and 6 for group 1; whenever it
\* returns GroupCountError{count}, count >= 3; whenever VolumeId64::parse
\* returns SimpleLengthError{len}, len != 16.
C26_NoBlameOnValid ==
    /\ (Diagnosed32 /\ result.tag = "Error") =>
        LET e == result.err IN
        /\ e.kind = "ParseSimpleLength" => e.len # 8
        /\ e.kind = "ParseGroupLength" =>
                /\ e.group \in {0, 1}
                /\ e.len # 4
                /\ e.index = IF e.group = 0 THEN 1 ELSE 6
        /\ e.kind = "ParseGroupCount" => e.count >= 3
    /\ (Diagnosed64 /\ result.tag = "Error") =>
        (result.err.kind = "ParseSimpleLength" => result.err.len # 16)

\* "6dDc-6a9B0": the hyphen is where it belongs and the second group has
\* five characters
C26_Witness ==
    /\ pc = "parsed"
    /\ op = "parse32"
    /\ input = <<54, 100, 68, 99, 45, 54, 97, 57, 66, 48>>
    /\ result = Failed(ParseGroupLength(1, 5, 6))

\* C27: frame of encoding.  For HyphenatedId32 and SimpleId64, encode_lower
\* / encode_upper with a buffer of length n >= LENGTH overwrites exactly the
\* first LENGTH bytes, the bytes at LENGTH..n-1 keep their values, the text
\* returned is the first LENGTH bytes, and the identifier's stored bytes
\* are unchanged.
C27_EncodeFrame ==
    [][(pc' = "encoded" /\ op' \in {"HyphenatedId32", "SimpleId64"}
            /\ pc = "have_id" /\ Len(before') >= LengthOf(op')) =>
        /\ result'.tag # "Panic"
        /\ Len(buffer') = Len(before')
        /\ \A k \in 1..Len(before') :
                IF k <= LengthOf(op') THEN buffer'[k] # before'[k]
                ELSE buffer'[k] = before'[k]
        /\ text' = SubSeq(buffer', 1, LengthOf(op'))
        /\ id' = id]_vars

\* a buffer of 10 bytes '.' took the 9 characters of HyphenatedId32 and kept
\* its last byte
C27_Witness ==
    /\ pc = "encoded"
    /\ op = "HyphenatedId32"
    /\ before = [k \in 1..10 |-> 46]
    /\ Len(text) = 9
    /\ buffer = text \o <<46>>

FirstOdd(chars) ==
    CHOOSE k \in 1..Len(chars) :
        /\ chars[k].character \notin HexDigits
        /\ \A j \in 1..(k - 1) : chars[j].character \in HexDigits

\* C28: the 64-bit diagnostics take the hyphen for an invalid character.
\* For every UTF-8 input to VolumeId64::parse whose first character that is
\* not a hex digit is '-', the result is InvalidCharacter with '-' and the
\* 1-based index of that hyphen; VolumeId64::parse never returns a
\* group-count or group-length error: it fails with InvalidCharacter or
\* SimpleLengthError only.
C28_HyphenInvalid64 ==
    (Diagnosed64 /\ from_utf8_ok(input)) =>
        LET chars == char_indices(input).chars IN
        /\ result.tag \in {"Ok", "Error"}
        /\ result.tag = "Error" =>
                result.err.kind \in {"ParseChar", "ParseSimpleLength"}
        /\ (~AllHex(input) /\ chars[FirstOdd(chars)].character = HYPHEN) =>
                result = Failed(ParseChar(HYPHEN, FirstOdd(chars)))

\* 17 characters, eight hex digits on either side of a hyphen
C28_Witness ==
    /\ pc = "parsed"
    /\ op = "parse64"
    /\ Len(input) = 17
    /\ At(input, 8) = HYPHEN
    /\ result = Failed(ParseChar(HYPHEN, 9))

\* C29: the rendered group-length message.  For every GroupLengthError
\* {group, len, ..} VolumeId32::parse can return, the Display text states
\* the expected length of that group in the xxxx-xxxx layout, which is 4
\* for group 0 and 4 for group 1, together with the observed len.
C29_GroupLengthMessage ==
    (pc = "rendered" /\ op = "parse32" /\ result.err.kind = "ParseGroupLength") =>
        /\ ~ret.panic
        /\ ret.template = "invalid group length in group {}: expected {}, found {}"
        /\ ret.args = <<result.err.group, 4, result.err.len>>

\* C30: the hyphenated decoder of the crate root.  parser::parse_hyphenated,
\* reached by the crate root's VolumeId32::try_parse_ascii for 9-byte input,
\* decodes each 4-character group exactly as the simple decoder does: every
\* 9-byte input whose byte 4 is '-' but which has a byte that is not a hex
\* digit at any of the other 8 positions is rejected, never decoded into an
\* identifier.
C30_RootHyphenated ==
    (pc = "parsed" /\ op = "root_try_parse_ascii" /\ Len(input) = 9
        /\ At(input, 4) = HYPHEN
        /\ \E k \in (0..8) \ {4} : At(input, k) \notin HexDigits)
            => result.tag # "Ok"

====
